---- MODULE Spec2Model ----
(***************************************************************************)
(* PTZManager (src/ptz_manager.py): the desired-command cell written by    *)
(* the detection/state-machine thread and the background command loop      *)
(* that reads it, deduplicates, dispatches to the ONVIF link and           *)
(* reconnects on failure.                                                  *)
(*                                                                         *)
(* Velocities are integers in units of 0.01: the clamp range [-1.0, 1.0]   *)
(* is -100..100 and PTZ_VELOCITY_THRESHOLD (0.01) is 1.                    *)
(***************************************************************************)
EXTENDS Integers, Sequences, FiniteSets, TLC

\* ---------------------------------------------------------------- bounds
\* number of set_velocity / stop / goto_preset writes the caller makes
MaxWrites == 3

\* number of preset moves one run of the tracker requests
MaxMoves == 4

\* The tracker's configured durations, in ticks of the model clock, and its
\* patience budget.  config.py sets 300 s, 30 s, 30 s, 5 s, 1 s, 10 s and 10
\* cycles; the model runs the same code with a configuration of small
\* values, so that every timeout is reached within a few ticks.
AUDIO_TRIGGER_TIME == 2
SCAN_INTERVAL == 1
PERSON_TIMEOUT == 1
MAX_FALLBACK_DURATION == 1
SLEEP_CHECK_INTERVAL == 1
STARTUP_IGNORE_TIME == 1
TRACKING_PATIENCE_COUNT == 1

\* ------------------------------------------------------- program constants
PTZ_VELOCITY_THRESHOLD == 1
VEL_LIMIT == 100

\* (pan, tilt) arguments the caller passes to set_velocity: per axis zero, a
\* value within the threshold of zero, and a value beyond the clamp range
VelArgs == {<<0, -150>>, <<0, 1>>, <<-150, 0>>, <<1, 1>>}

VARIABLES
    \* PTZManager fields
    ptz, profile, cmd_pan, cmd_tilt, running, lock,
    \* _command_loop: position and locals
    pc_loop, last_pan, last_tilt, current_pan, current_tilt,
    \* calling thread: position, operation in progress, its arguments
    pc_main, op, arg_pan, arg_tilt, ret,
    \* the hardware request issued by the latest step, and the velocity in it
    hwEvt, hwVel,
    \* history: which write filled each cell / each local, the latest
    \* completed write and the one the loop's read saw
    nWrites, panTag, tiltTag, curPanTag, curTiltTag, written,
    readWritten, preCell,
    \* history: per-tick and per-episode observations
    sendsOfCurrent, presetActive, movingAtShutdown, stopAfterShutdown,
    backoffDue, checkedSinceAttempt, tickLinked, tickDispatches,
    failedLastTick, overwrote,
    \* TrackerState flags and counters (src/state.py)
    is_searching, target_locked, was_tracking, is_sleep_mode,
    normal_frame_count, current_preset_idx, person_detected_count,
    \* TrackerState timestamps, each held as the time elapsed since it
    since_audio, since_scan, since_person, since_sleep_check, since_startup,
    \* TrackerState and frame-reader members the handlers and the run loop
    \* use but src/ does not define
    loss_count, since_fallback, last_target_pos, paused,
    \* the MQTT thread's position in _on_mqtt_message
    pc_mqtt,
    \* the branch the latest evaluation cycle took, the PTZManager call it
    \* made, that call's argument, the detection it handled, and the
    \* detection list of the frame it read
    branch, api, apiArg, detection, scene,
    \* history: the time elapsed since the latest preset-move request of the
    \* current searching episode
    since_move,
    \* a function applied on its own: whether it has been called or has
    \* returned, its arguments, and the value it returned
    pc_fn, fn_args, fn_ret

mgrVars   == <<ptz, profile, cmd_pan, cmd_tilt, running, lock>>
loopVars  == <<pc_loop, last_pan, last_tilt, current_pan, current_tilt>>
mainVars  == <<pc_main, op, arg_pan, arg_tilt, ret>>
hwVars    == <<hwEvt, hwVel>>
tagVars   == <<nWrites, panTag, tiltTag, curPanTag, curTiltTag, written,
               readWritten, preCell>>
histVars  == <<sendsOfCurrent, presetActive, movingAtShutdown,
               stopAfterShutdown, backoffDue, checkedSinceAttempt,
               tickLinked, tickDispatches, failedLastTick, overwrote>>
stateVars == <<is_searching, target_locked, was_tracking, is_sleep_mode,
               normal_frame_count, current_preset_idx, person_detected_count>>
timeVars  == <<since_audio, since_scan, since_person, since_sleep_check,
               since_startup>>
missVars  == <<loss_count, since_fallback, last_target_pos, paused>>
cycleVars == <<pc_mqtt, branch, api, apiArg, detection, scene,
               since_move>>
fnVars    == <<pc_fn, fn_args, fn_ret>>
vars == <<mgrVars, loopVars, mainVars, hwVars, tagVars, histVars, stateVars,
          timeVars, missVars, cycleVars, fnVars>>

\* ----------------------------------------------------------------- helpers
Abs(x) == IF x < 0 THEN -x ELSE x

\* max(-1.0, min(1.0, v))
Clamp_noclamp(v) == v
Clamp(v) == IF v > VEL_LIMIT THEN VEL_LIMIT
            ELSE IF v < -VEL_LIMIT THEN -VEL_LIMIT ELSE v

\* not (not self.ptz or not self.profile)
IsConnected == ptz # "None" /\ profile # "None"

Cell == <<cmd_pan, cmd_tilt>>
Last == <<last_pan, last_tilt>>
Current == <<current_pan, current_tilt>>

\* abs(current - last) > config.PTZ_VELOCITY_THRESHOLD
Changed(cur, last) == Abs(cur - last) > PTZ_VELOCITY_THRESHOLD

\* stopped = current_pan == 0 and current_tilt == 0 and last_pan != 0
stopped == current_pan = 0 /\ current_tilt = 0 /\ last_pan # 0

\* if pan_changed or tilt_changed or stopped
ShouldSend == \/ Changed(current_pan, last_pan)
              \/ Changed(current_tilt, last_tilt)
              \/ stopped

\* with self.lock: the lock can be taken
LockFree_nolock == TRUE
LockFree == lock = "free"

Quiet == hwEvt' = "none" /\ hwVel' = hwVel

\* --------------------------------------------------------- elapsed times
\* A timestamp field t of TrackerState is held as time.time() - t, the time
\* elapsed since it was set, which is all the code ever reads of it.  The
\* elapsed time stops growing where the comparison the code makes can no
\* longer change: at d for "elapsed >= d" and "elapsed < d", one tick past d
\* for "elapsed > d".  That last value is also the value of a field still at
\* its initial 0.0.
Never(d) == d + 1

\* one more tick on an elapsed time that stops growing at last
Older(e, last) == IF e < last THEN e + 1 ELSE e

\* fallback_start_time == 0.0: the fallback timer is not running
Unset == -1

SLEEP_WAKE_CHECK_COUNT == 3
SEARCH_PRESETS == <<"1", "2", "4">>
FALLBACK_CLASSES == {0, 2}
MAX_FALLBACK_DISTANCE == 30
PRIVACY_BRIGHTNESS_THRESHOLD == 30
PRIVACY_STD_THRESHOLD == 40

\* ------------------------------------------------------------------- Init
\* the state after PTZManager.__init__: one _connect() attempt has run (and
\* succeeded, raised, or found no profile) and the loop thread is started
Constructed ==
    /\ \E c \in {<<"svc", "tok">>, <<"None", "None">>, <<"svc", "None">>} :
          ptz = c[1] /\ profile = c[2]
    /\ cmd_pan = 0 /\ cmd_tilt = 0
    /\ running = TRUE
    /\ lock = "free"
    /\ pc_loop = "while"
    /\ last_pan = 0 /\ last_tilt = 0
    /\ current_pan = 0 /\ current_tilt = 0
    /\ pc_main = "idle" /\ op = "none"
    /\ arg_pan = 0 /\ arg_tilt = 0
    /\ ret = "none"
    /\ hwEvt = "none" /\ hwVel = <<0, 0>>
    /\ nWrites = 0
    /\ panTag = 0 /\ tiltTag = 0 /\ curPanTag = 0 /\ curTiltTag = 0
    /\ written = <<0, 0>> /\ readWritten = <<0, 0>>
    /\ preCell = <<0, 0>>
    /\ sendsOfCurrent = 0
    /\ presetActive = FALSE
    /\ movingAtShutdown = FALSE /\ stopAfterShutdown = FALSE
    /\ backoffDue = (ptz = "svc" /\ profile = "None")
    /\ checkedSinceAttempt = TRUE
    /\ tickLinked = FALSE /\ tickDispatches = 0
    /\ failedLastTick = FALSE
    /\ overwrote = FALSE
    /\ is_searching = FALSE /\ target_locked = FALSE /\ was_tracking = FALSE
    /\ is_sleep_mode = FALSE
    /\ normal_frame_count = 0 /\ current_preset_idx = 0
    /\ person_detected_count = 0
    /\ since_audio = Never(AUDIO_TRIGGER_TIME)
    /\ since_scan = Never(SCAN_INTERVAL)
    /\ since_person = Never(PERSON_TIMEOUT)
    /\ since_sleep_check = SLEEP_CHECK_INTERVAL
    /\ since_startup = 0
    /\ loss_count = 0
    /\ since_fallback = Unset
    /\ last_target_pos = <<>>
    /\ paused = FALSE
    /\ pc_mqtt = "idle"
    /\ branch = "none" /\ api = "none" /\ apiArg = <<>> /\ detection = <<>>
    /\ scene = <<>>
    /\ since_move = Never(SCAN_INTERVAL)

\* ... and no function is applied on its own
Init ==
    /\ Constructed
    /\ pc_fn = "none" /\ fn_args = [fn |-> "none"] /\ fn_ret = <<>>

\* ------------------------------------------------- _command_loop (thread b)
\* while self.running:
LoopWhile ==
    /\ pc_loop = "while"
    /\ pc_loop' = IF running THEN "check" ELSE "done"
    /\ checkedSinceAttempt' = TRUE
    /\ tickLinked' = FALSE /\ tickDispatches' = 0
    /\ Quiet
    /\ UNCHANGED <<mgrVars, last_pan, last_tilt, current_pan, current_tilt,
                   mainVars, tagVars, sendsOfCurrent, presetActive,
                   movingAtShutdown, stopAfterShutdown, backoffDue,
                   failedLastTick, overwrote, stateVars, timeVars, missVars,
                   cycleVars, fnVars>>

\* if not self.ptz or not self.profile: self._connect(); continue
LoopCheck ==
    /\ pc_loop = "check"
    /\ pc_loop' = IF IsConnected THEN "lock" ELSE "connect"
    /\ tickLinked' = IsConnected
    /\ Quiet
    /\ UNCHANGED <<mgrVars, last_pan, last_tilt, current_pan, current_tilt,
                   mainVars, tagVars, sendsOfCurrent, presetActive,
                   movingAtShutdown, stopAfterShutdown, backoffDue,
                   checkedSinceAttempt, tickDispatches, failedLastTick,
                   overwrote, stateVars, timeVars, missVars, cycleVars,
                   fnVars>>

\* _connect: ONVIFCamera(...) / create_media_service / create_ptz_service
\* raises before self.ptz is assigned
ConnectRaise ==
    /\ pc_loop = "connect"
    /\ failedLastTick' = FALSE
    /\ pc_loop' = "conn_except"
    /\ checkedSinceAttempt' = FALSE
    /\ Quiet
    /\ UNCHANGED <<mgrVars, last_pan, last_tilt, current_pan, current_tilt,
                   mainVars, tagVars, sendsOfCurrent, presetActive,
                   movingAtShutdown, stopAfterShutdown, backoffDue,
                   tickLinked, tickDispatches, overwrote, stateVars,
                   timeVars, missVars, cycleVars, fnVars>>

\* _connect: self.ptz = cam.create_ptz_service()
ConnectPtz ==
    /\ pc_loop = "connect"
    /\ failedLastTick' = FALSE
    /\ ptz' = "svc"
    /\ pc_loop' = "getprofiles"
    /\ checkedSinceAttempt' = FALSE
    /\ Quiet
    /\ UNCHANGED <<profile, cmd_pan, cmd_tilt, running, lock, last_pan,
                   last_tilt, current_pan, current_tilt, mainVars, tagVars,
                   sendsOfCurrent, presetActive, movingAtShutdown,
                   stopAfterShutdown, backoffDue, tickLinked, tickDispatches,
                   overwrote, stateVars, timeVars, missVars, cycleVars,
                   fnVars>>

\* _connect: media.GetProfiles() raises
GetProfilesRaise ==
    /\ pc_loop = "getprofiles"
    /\ pc_loop' = "conn_except"
    /\ Quiet
    /\ UNCHANGED <<mgrVars, last_pan, last_tilt, current_pan, current_tilt,
                   mainVars, tagVars, histVars, stateVars, timeVars,
                   missVars, cycleVars, fnVars>>

\* _connect: if not profiles: return False   (the loop then continues)
GetProfilesEmpty ==
    /\ pc_loop = "getprofiles"
    /\ pc_loop' = "while"
    /\ backoffDue' = TRUE
    /\ Quiet
    /\ UNCHANGED <<mgrVars, last_pan, last_tilt, current_pan, current_tilt,
                   mainVars, tagVars, sendsOfCurrent, presetActive,
                   movingAtShutdown, stopAfterShutdown, checkedSinceAttempt,
                   tickLinked, tickDispatches, failedLastTick, overwrote,
                   stateVars, timeVars, missVars, cycleVars, fnVars>>

\* _connect: self.profile = profiles[0].token; return True
GetProfilesOK ==
    /\ pc_loop = "getprofiles"
    /\ profile' = "tok"
    /\ pc_loop' = "while"
    /\ backoffDue' = FALSE
    /\ Quiet
    /\ UNCHANGED <<ptz, cmd_pan, cmd_tilt, running, lock, last_pan,
                   last_tilt, current_pan, current_tilt, mainVars, tagVars,
                   sendsOfCurrent, presetActive, movingAtShutdown,
                   stopAfterShutdown, checkedSinceAttempt, tickLinked,
                   tickDispatches, failedLastTick, overwrote, stateVars,
                   timeVars, missVars, cycleVars, fnVars>>

\* _connect: except Exception: self.ptz = None; self.profile = None
ConnExcept ==
    /\ pc_loop = "conn_except"
    /\ ptz' = "None" /\ profile' = "None"
    /\ pc_loop' = "conn_sleep"
    /\ backoffDue' = TRUE
    /\ Quiet
    /\ UNCHANGED <<cmd_pan, cmd_tilt, running, lock, last_pan, last_tilt,
                   current_pan, current_tilt, mainVars, tagVars,
                   sendsOfCurrent, presetActive, movingAtShutdown,
                   stopAfterShutdown, checkedSinceAttempt, tickLinked,
                   tickDispatches, failedLastTick, overwrote, stateVars,
                   timeVars, missVars, cycleVars, fnVars>>

\* _connect: time.sleep(config.PTZ_RECONNECT_DELAY); return False
ConnSleep ==
    /\ pc_loop = "conn_sleep"
    /\ pc_loop' = "while"
    /\ backoffDue' = FALSE
    /\ Quiet
    /\ UNCHANGED <<mgrVars, last_pan, last_tilt, current_pan, current_tilt,
                   mainVars, tagVars, sendsOfCurrent, presetActive,
                   movingAtShutdown, stopAfterShutdown, checkedSinceAttempt,
                   tickLinked, tickDispatches, failedLastTick, overwrote,
                   stateVars, timeVars, missVars, cycleVars, fnVars>>

\* with self.lock:
LoopAcquire ==
    /\ pc_loop = "lock"
    /\ LockFree
    /\ lock' = "loop"
    /\ pc_loop' = "read_pan"
    /\ Quiet
    /\ UNCHANGED <<ptz, profile, cmd_pan, cmd_tilt, running, last_pan,
                   last_tilt, current_pan, current_tilt, mainVars, tagVars,
                   histVars, stateVars, timeVars, missVars, cycleVars, fnVars>>

\* current_pan = self.cmd_pan
LoopReadPan ==
    /\ pc_loop = "read_pan"
    /\ current_pan' = cmd_pan
    /\ curPanTag' = panTag
    /\ pc_loop' = "read_tilt"
    /\ Quiet
    /\ UNCHANGED <<mgrVars, last_pan, last_tilt, current_tilt, mainVars,
                   nWrites, panTag, tiltTag, curTiltTag, written,
                   readWritten, preCell, histVars, stateVars, timeVars,
                   missVars, cycleVars, fnVars>>

\* current_tilt = self.cmd_tilt   (and the lock is released)
LoopReadTilt_stale ==
    /\ pc_loop = "read_tilt"
    /\ current_tilt' = current_tilt
    /\ curTiltTag' = tiltTag
    /\ readWritten' = written
    /\ lock' = "free"
    /\ pc_loop' = "decide"
    /\ Quiet
    /\ UNCHANGED <<ptz, profile, cmd_pan, cmd_tilt, running, last_pan,
                   last_tilt, current_pan, mainVars, nWrites, panTag,
                   tiltTag, curPanTag, written, preCell, histVars, stateVars,
                   timeVars, missVars, cycleVars, fnVars>>
LoopReadTilt ==
    /\ pc_loop = "read_tilt"
    /\ current_tilt' = cmd_tilt
    /\ curTiltTag' = tiltTag
    /\ readWritten' = written
    /\ lock' = "free"
    /\ pc_loop' = "decide"
    /\ Quiet
    /\ UNCHANGED <<ptz, profile, cmd_pan, cmd_tilt, running, last_pan,
                   last_tilt, current_pan, mainVars, nWrites, panTag,
                   tiltTag, curPanTag, written, preCell, histVars, stateVars,
                   timeVars, missVars, cycleVars, fnVars>>

\* if pan_changed or tilt_changed or stopped:  (false branch)
LoopNoChange ==
    /\ pc_loop = "decide"
    /\ ~ShouldSend
    /\ pc_loop' = "sleep"
    /\ Quiet
    /\ UNCHANGED <<mgrVars, last_pan, last_tilt, current_pan, current_tilt,
                   mainVars, tagVars, histVars, stateVars, timeVars,
                   missVars, cycleVars, fnVars>>

\* the request the loop issues for the command it read
DispatchKind == IF current_pan = 0 /\ current_tilt = 0 THEN "Stop" ELSE "Move"

\* self.ptz.Stop(...) / self.ptz.ContinuousMove(req) returns;
\* last_pan = current_pan; last_tilt = current_tilt
DispatchOK_nolast ==
    /\ pc_loop = "decide"
    /\ ShouldSend
    /\ hwEvt' = DispatchKind
    /\ hwVel' = Current
    /\ last_pan' = last_pan /\ last_tilt' = last_tilt
    /\ pc_loop' = "sleep"
    /\ tickDispatches' = tickDispatches + 1
    /\ sendsOfCurrent' = IF curPanTag = nWrites /\ curTiltTag = nWrites
                         THEN (IF sendsOfCurrent < 2 THEN sendsOfCurrent + 1
                               ELSE 2)
                         ELSE sendsOfCurrent
    /\ stopAfterShutdown' = (stopAfterShutdown
                             \/ (~running /\ DispatchKind = "Stop"))
    /\ UNCHANGED <<mgrVars, current_pan, current_tilt, mainVars, tagVars,
                   presetActive, movingAtShutdown, backoffDue,
                   checkedSinceAttempt, tickLinked, failedLastTick,
                   overwrote, stateVars, timeVars, missVars, cycleVars,
                   fnVars>>
DispatchOK ==
    /\ pc_loop = "decide"
    /\ ShouldSend
    /\ hwEvt' = DispatchKind
    /\ hwVel' = Current
    /\ last_pan' = current_pan /\ last_tilt' = current_tilt
    /\ pc_loop' = "sleep"
    /\ tickDispatches' = tickDispatches + 1
    /\ sendsOfCurrent' = IF curPanTag = nWrites /\ curTiltTag = nWrites
                         THEN (IF sendsOfCurrent < 2 THEN sendsOfCurrent + 1
                               ELSE 2)
                         ELSE sendsOfCurrent
    /\ stopAfterShutdown' = (stopAfterShutdown
                             \/ (~running /\ DispatchKind = "Stop"))
    /\ UNCHANGED <<mgrVars, current_pan, current_tilt, mainVars, tagVars,
                   presetActive, movingAtShutdown, backoffDue,
                   checkedSinceAttempt, tickLinked, failedLastTick,
                   overwrote, stateVars, timeVars, missVars, cycleVars,
                   fnVars>>

\* self.ptz.Stop(...) / self.ptz.ContinuousMove(req) raises;
\* except Exception: self.ptz = None
DispatchFail_keeplink ==
    /\ pc_loop = "decide"
    /\ ShouldSend
    /\ failedLastTick' = TRUE
    /\ hwEvt' = IF DispatchKind = "Stop" THEN "StopFail" ELSE "MoveFail"
    /\ hwVel' = hwVel
    /\ pc_loop' = "decide"
    /\ tickDispatches' = tickDispatches + 1
    /\ UNCHANGED <<mgrVars, last_pan, last_tilt, current_pan, current_tilt,
                   mainVars, tagVars, sendsOfCurrent, presetActive,
                   movingAtShutdown, stopAfterShutdown, backoffDue,
                   checkedSinceAttempt, tickLinked, overwrote, stateVars,
                   timeVars, missVars, cycleVars, fnVars>>
DispatchFail ==
    /\ pc_loop = "decide"
    /\ ShouldSend
    /\ failedLastTick' = TRUE
    /\ hwEvt' = IF DispatchKind = "Stop" THEN "StopFail" ELSE "MoveFail"
    /\ hwVel' = hwVel
    /\ ptz' = "None"
    /\ pc_loop' = "sleep"
    /\ tickDispatches' = tickDispatches + 1
    /\ UNCHANGED <<profile, cmd_pan, cmd_tilt, running, lock, last_pan,
                   last_tilt, current_pan, current_tilt, mainVars, tagVars,
                   sendsOfCurrent, presetActive, movingAtShutdown,
                   stopAfterShutdown, backoffDue, checkedSinceAttempt,
                   tickLinked, overwrote, stateVars, timeVars, missVars,
                   cycleVars, fnVars>>

\* time.sleep(config.PTZ_LOOP_INTERVAL)
LoopSleep ==
    /\ pc_loop = "sleep"
    /\ pc_loop' = "while"
    /\ Quiet
    /\ UNCHANGED <<mgrVars, last_pan, last_tilt, current_pan, current_tilt,
                   mainVars, tagVars, histVars, stateVars, timeVars,
                   missVars, cycleVars, fnVars>>

LoopNext ==
    \/ LoopWhile \/ LoopCheck
    \/ ConnectRaise \/ ConnectPtz
    \/ GetProfilesRaise \/ GetProfilesEmpty \/ GetProfilesOK
    \/ ConnExcept \/ ConnSleep
    \/ LoopAcquire \/ LoopReadPan \/ LoopReadTilt
    \/ LoopNoChange \/ DispatchOK \/ DispatchFail
    \/ LoopSleep

\* ------------------------------------ calling thread (a): the public API
\* set_velocity(pan, tilt) is called
set_velocity(pan, tilt) ==
    /\ pc_main = "idle"
    /\ nWrites < MaxWrites
    /\ op' = "set_velocity"
    /\ arg_pan' = pan /\ arg_tilt' = tilt
    /\ nWrites' = nWrites + 1
    /\ ret' = "none"
    /\ pc_main' = "sv_lock"
    /\ Quiet
    /\ UNCHANGED <<mgrVars, loopVars, panTag, tiltTag, curPanTag, curTiltTag,
                   written, readWritten, preCell, histVars, stateVars,
                   timeVars, missVars, cycleVars, fnVars>>

\* stop(): self.set_velocity(0, 0)
stop == set_velocity(0, 0)

\* set_velocity: with self.lock:
SvAcquire ==
    /\ pc_main = "sv_lock"
    /\ LockFree
    /\ lock' = "main"
    /\ pc_main' = "sv_pan"
    /\ Quiet
    /\ UNCHANGED <<ptz, profile, cmd_pan, cmd_tilt, running, loopVars, op,
                   arg_pan, arg_tilt, ret, tagVars, histVars, stateVars,
                   timeVars, missVars, cycleVars, fnVars>>

\* set_velocity: self.cmd_pan = max(-1.0, min(1.0, pan))
SvPan ==
    /\ pc_main = "sv_pan"
    /\ overwrote' = (overwrote \/ curPanTag < panTag)
    /\ cmd_pan' = Clamp(arg_pan)
    /\ panTag' = nWrites
    /\ pc_main' = "sv_tilt"
    /\ Quiet
    /\ UNCHANGED <<ptz, profile, cmd_tilt, running, lock, loopVars, op,
                   arg_pan, arg_tilt, ret, nWrites, tiltTag, curPanTag,
                   curTiltTag, written, readWritten, preCell, sendsOfCurrent,
                   presetActive, movingAtShutdown, stopAfterShutdown,
                   backoffDue, checkedSinceAttempt, tickLinked,
                   tickDispatches, failedLastTick, stateVars, timeVars,
                   missVars, cycleVars, fnVars>>

\* set_velocity: self.cmd_tilt = max(-1.0, min(1.0, tilt)); the lock is
\* released and the call returns (inside shutdown(), to the join)
SvTilt ==
    /\ pc_main = "sv_tilt"
    /\ cmd_tilt' = Clamp(arg_tilt)
    /\ tiltTag' = nWrites
    /\ written' = <<Clamp(arg_pan), Clamp(arg_tilt)>>
    /\ lock' = "free"
    /\ sendsOfCurrent' = 0
    /\ presetActive' = FALSE
    /\ arg_pan' = 0 /\ arg_tilt' = 0
    /\ pc_main' = IF op = "shutdown" THEN "join" ELSE "idle"
    /\ op' = IF op = "shutdown" THEN op ELSE "none"
    /\ Quiet
    /\ UNCHANGED <<ptz, profile, cmd_pan, running, loopVars, ret, nWrites,
                   panTag, curPanTag, curTiltTag, readWritten, preCell,
                   movingAtShutdown, stopAfterShutdown, backoffDue,
                   checkedSinceAttempt, tickLinked, tickDispatches,
                   failedLastTick, overwrote, stateVars, timeVars, missVars,
                   cycleVars, fnVars>>

\* goto_preset(preset_token) is called
goto_preset ==
    /\ pc_main = "idle"
    /\ nWrites < MaxWrites
    /\ op' = "goto_preset"
    /\ ret' = "none"
    /\ preCell' = Cell
    /\ pc_main' = "gp_check"
    /\ Quiet
    /\ UNCHANGED <<mgrVars, loopVars, arg_pan, arg_tilt, nWrites, panTag,
                   tiltTag, curPanTag, curTiltTag, written, readWritten,
                   histVars, stateVars, timeVars, missVars, cycleVars, fnVars>>

\* goto_preset: if not self.ptz or not self.profile: return False
GpCheck ==
    /\ pc_main = "gp_check"
    /\ IF IsConnected
       THEN pc_main' = "gp_req" /\ ret' = ret /\ op' = op
       ELSE pc_main' = "idle" /\ ret' = "False" /\ op' = "none"
    /\ Quiet
    /\ UNCHANGED <<mgrVars, loopVars, arg_pan, arg_tilt, tagVars, histVars,
                   stateVars, timeVars, missVars, cycleVars, fnVars>>

\* goto_preset: self.ptz.GotoPreset(req) returns
GpRequestOK ==
    /\ pc_main = "gp_req"
    /\ ptz # "None"
    /\ hwEvt' = "Preset" /\ hwVel' = hwVel
    /\ presetActive' = TRUE
    /\ nWrites' = nWrites + 1
    /\ pc_main' = "gp_lock"
    /\ UNCHANGED <<mgrVars, loopVars, op, arg_pan, arg_tilt, ret, panTag,
                   tiltTag, curPanTag, curTiltTag, written, readWritten,
                   preCell, sendsOfCurrent, movingAtShutdown,
                   stopAfterShutdown, backoffDue, checkedSinceAttempt,
                   tickLinked, tickDispatches, failedLastTick, overwrote,
                   stateVars, timeVars, missVars, cycleVars, fnVars>>

\* goto_preset: create_type / GotoPreset raises (the request fails, or the
\* loop has set self.ptz to None since the check);
\* except Exception: return False
GpRequestFail ==
    /\ pc_main = "gp_req"
    /\ hwEvt' = "PresetFail" /\ hwVel' = hwVel
    /\ ret' = "False"
    /\ op' = "none"
    /\ pc_main' = "idle"
    /\ UNCHANGED <<mgrVars, loopVars, arg_pan, arg_tilt, tagVars, histVars,
                   stateVars, timeVars, missVars, cycleVars, fnVars>>

\* goto_preset: with self.lock:
GpAcquire ==
    /\ pc_main = "gp_lock"
    /\ LockFree
    /\ lock' = "main"
    /\ pc_main' = "gp_pan"
    /\ Quiet
    /\ UNCHANGED <<ptz, profile, cmd_pan, cmd_tilt, running, loopVars, op,
                   arg_pan, arg_tilt, ret, tagVars, histVars, stateVars,
                   timeVars, missVars, cycleVars, fnVars>>

\* goto_preset: self.cmd_pan = 0
GpPan ==
    /\ pc_main = "gp_pan"
    /\ overwrote' = (overwrote \/ curPanTag < panTag)
    /\ cmd_pan' = 0
    /\ panTag' = nWrites
    /\ pc_main' = "gp_tilt"
    /\ Quiet
    /\ UNCHANGED <<ptz, profile, cmd_tilt, running, lock, loopVars, op,
                   arg_pan, arg_tilt, ret, nWrites, tiltTag, curPanTag,
                   curTiltTag, written, readWritten, preCell, sendsOfCurrent,
                   presetActive, movingAtShutdown, stopAfterShutdown,
                   backoffDue, checkedSinceAttempt, tickLinked,
                   tickDispatches, failedLastTick, stateVars, timeVars,
                   missVars, cycleVars, fnVars>>

\* goto_preset: self.cmd_tilt = 0; the lock is released; return True
GpTilt_keep ==
    /\ pc_main = "gp_tilt"
    /\ cmd_tilt' = cmd_tilt
    /\ tiltTag' = nWrites
    /\ written' = <<0, 0>>
    /\ lock' = "free"
    /\ sendsOfCurrent' = 0
    /\ ret' = "True"
    /\ op' = "none"
    /\ pc_main' = "idle"
    /\ Quiet
    /\ UNCHANGED <<ptz, profile, cmd_pan, running, loopVars, arg_pan,
                   arg_tilt, nWrites, panTag, curPanTag, curTiltTag,
                   readWritten, preCell, presetActive, movingAtShutdown,
                   stopAfterShutdown, backoffDue, checkedSinceAttempt,
                   tickLinked, tickDispatches, failedLastTick, overwrote,
                   stateVars, timeVars, missVars, cycleVars, fnVars>>
GpTilt ==
    /\ pc_main = "gp_tilt"
    /\ cmd_tilt' = 0
    /\ tiltTag' = nWrites
    /\ written' = <<0, 0>>
    /\ lock' = "free"
    /\ sendsOfCurrent' = 0
    /\ ret' = "True"
    /\ op' = "none"
    /\ pc_main' = "idle"
    /\ Quiet
    /\ UNCHANGED <<ptz, profile, cmd_pan, running, loopVars, arg_pan,
                   arg_tilt, nWrites, panTag, curPanTag, curTiltTag,
                   readWritten, preCell, presetActive, movingAtShutdown,
                   stopAfterShutdown, backoffDue, checkedSinceAttempt,
                   tickLinked, tickDispatches, failedLastTick, overwrote,
                   stateVars, timeVars, missVars, cycleVars, fnVars>>

\* shutdown(): self.running = False; self.stop()
shutdown ==
    /\ pc_main = "idle"
    /\ running
    /\ running' = FALSE
    /\ op' = "shutdown"
    /\ arg_pan' = 0 /\ arg_tilt' = 0
    /\ nWrites' = nWrites + 1
    /\ ret' = "none"
    /\ movingAtShutdown' = (Last # <<0, 0>>)
    /\ pc_main' = "sv_lock"
    /\ Quiet
    /\ UNCHANGED <<ptz, profile, cmd_pan, cmd_tilt, lock, loopVars, panTag,
                   tiltTag, curPanTag, curTiltTag, written, readWritten,
                   preCell, sendsOfCurrent, presetActive, stopAfterShutdown,
                   backoffDue, checkedSinceAttempt, tickLinked,
                   tickDispatches, failedLastTick, overwrote, stateVars,
                   timeVars, missVars, cycleVars, fnVars>>

\* shutdown: if self.thread.is_alive(): self.thread.join(timeout=2.0)
\* returns because the loop has ended
JoinDone ==
    /\ pc_main = "join"
    /\ pc_loop = "done"
    /\ pc_main' = "exited"
    /\ Quiet
    /\ UNCHANGED <<mgrVars, loopVars, op, arg_pan, arg_tilt, ret, tagVars,
                   histVars, stateVars, timeVars, missVars, cycleVars, fnVars>>

\* shutdown: self.thread.join(timeout=2.0) returns on the timeout
JoinTimeout ==
    /\ pc_main = "join"
    /\ pc_loop # "done"
    /\ pc_main' = "exited"
    /\ Quiet
    /\ UNCHANGED <<mgrVars, loopVars, op, arg_pan, arg_tilt, ret, tagVars,
                   histVars, stateVars, timeVars, missVars, cycleVars, fnVars>>

\* the steps the caller takes while it holds the lock
MainCritical == SvPan \/ SvTilt \/ GpPan \/ GpTilt

MainNext ==
    \/ \E a \in VelArgs : set_velocity(a[1], a[2])
    \/ stop
    \/ SvAcquire \/ SvPan \/ SvTilt
    \/ goto_preset \/ GpCheck \/ GpRequestOK \/ GpRequestFail
    \/ GpAcquire \/ GpPan \/ GpTilt
    \/ shutdown \/ JoinDone \/ JoinTimeout

Next == LoopNext \/ MainNext

Spec == Init /\ [][Next]_vars

\* the loop thread is scheduled, a thread inside the lock leaves it, and
\* reconnect and dispatch do not fail for ever
LiveSpec ==
    /\ Init /\ [][Next]_vars
    /\ WF_vars(LoopNext)
    /\ WF_vars(MainCritical)
    /\ SF_vars(ConnectPtz)
    /\ SF_vars(GetProfilesOK)
    /\ SF_vars(DispatchOK)

\* ------------------------------------------------ VelocityCalculator
\* config.py, in units of 0.01
PAN_DEAD_ZONE == 10
TILT_DEAD_ZONE == 15
PAN_VELOCITY_MULTIPLIER == 3
TILT_VELOCITY_MULTIPLIER == 2

\* frame size of the modelled camera, and the target coordinates tried:
\* the frame edges, the centre, and both sides of each dead-zone boundary
FRAME_WIDTH == 100
FRAME_HEIGHT == 100
TargetXs == {0, 39, 40, 50, 61, 70, 100}
TargetYs == {0, 34, 35, 50, 66, 100}

\* a ** config.VELOCITY_EXPONENT (1.3) for a = 0.00, 0.01, ..., 1.50,
\* rounded to 0.01
PowTable ==
    <<0, 0, 1, 1, 2, 2, 3, 3, 4, 4, 5, 6, 6, 7, 8, 8, 9, 10, 11, 12, 12, 13,
      14, 15, 16, 16, 17, 18, 19, 20, 21, 22, 23, 24, 25, 26, 26, 27, 28,
      29, 30, 31, 32, 33, 34, 35, 36, 37, 39, 40, 41, 42, 43, 44, 45, 46,
      47, 48, 49, 50, 51, 53, 54, 55, 56, 57, 58, 59, 61, 62, 63, 64, 65,
      66, 68, 69, 70, 71, 72, 74, 75, 76, 77, 78, 80, 81, 82, 83, 85, 86,
      87, 88, 90, 91, 92, 94, 95, 96, 97, 99, 100, 101, 103, 104, 105, 107,
      108, 109, 111, 112, 113, 115, 116, 117, 119, 120, 121, 123, 124, 125,
      127, 128, 129, 131, 132, 134, 135, 136, 138, 139, 141, 142, 143, 145,
      146, 148, 149, 151, 152, 153, 155, 156, 158, 159, 161, 162, 164, 165,
      166, 168, 169>>

\* abs(d * multiplier) ** config.VELOCITY_EXPONENT
Pow(a) == PowTable[a + 1]

Min(a, b) == IF a < b THEN a ELSE b

\* math.copysign(speed, d)
CopySign(speed, d) == IF d < 0 THEN -speed ELSE speed

\* VelocityCalculator.calculate(target_x, target_y, frame_width, frame_height)
calculate_nodeadzone(target_x, target_y, frame_width, frame_height) ==
    LET cx == frame_width \div 2
        cy == frame_height \div 2
        dx == ((target_x - cx) * 100) \div frame_width
        dy == ((target_y - cy) * 100) \div frame_height
        pan_val == IF Abs(dx) > 0
                   THEN CopySign(Min(Pow(Abs(dx * PAN_VELOCITY_MULTIPLIER)),
                                     100), dx)
                   ELSE 0
        tilt_val == IF Abs(dy) > 0
                    THEN CopySign(Min(Pow(Abs(dy * TILT_VELOCITY_MULTIPLIER)),
                                      100), -dy)
                    ELSE 0
    IN  <<pan_val, tilt_val>>
calculate(target_x, target_y, frame_width, frame_height) ==
    LET cx == frame_width \div 2
        cy == frame_height \div 2
        dx == ((target_x - cx) * 100) \div frame_width
        dy == ((target_y - cy) * 100) \div frame_height
        pan_val == IF Abs(dx) > PAN_DEAD_ZONE
                   THEN CopySign(Min(Pow(Abs(dx * PAN_VELOCITY_MULTIPLIER)),
                                     100), dx)
                   ELSE 0
        tilt_val == IF Abs(dy) > TILT_DEAD_ZONE
                    THEN CopySign(Min(Pow(Abs(dy * TILT_VELOCITY_MULTIPLIER)),
                                      100), -dy)
                    ELSE 0
    IN  <<pan_val, tilt_val>>

\* every command the calculator produces for a target inside the frame
CalcOutputs ==
    {calculate(x, y, FRAME_WIDTH, FRAME_HEIGHT) : x \in TargetXs, y \in TargetYs}

InRange(v) == -VEL_LIMIT <= v /\ v <= VEL_LIMIT

\* ------------------------------------------------ PTZManager, called whole
\* The evaluation cycle calls PTZManager from thread (a).  In the tracker's
\* specification a call is one step: the cell is written under the lock.
NoCall == api' = "none" /\ apiArg' = <<>>

\* ptz.set_velocity(pan, tilt)
SetVelocityCall(pan, tilt) ==
    /\ api' = "set_velocity" /\ apiArg' = <<pan, tilt>>
    /\ cmd_pan' = Clamp(pan) /\ cmd_tilt' = Clamp(tilt)

\* ptz.stop()
StopCall_keepcell ==
    /\ api' = "stop" /\ apiArg' = <<0, 0>>
    /\ cmd_pan' = cmd_pan /\ cmd_tilt' = cmd_tilt
StopCall ==
    /\ api' = "stop" /\ apiArg' = <<0, 0>>
    /\ cmd_pan' = Clamp(0) /\ cmd_tilt' = Clamp(0)

\* a step outside the evaluation cycle
NotCycle == branch' = "none" /\ NoCall /\ detection' = <<>> /\ scene' = <<>>

\* ------------------------------------------------------------ TrackerState
\* time.time() - self.startup_time < ignore_time
is_startup_period(ignore_time) == since_startup < ignore_time

\* self.last_audio_time = time.time(); self.is_searching = True;
\* self.last_scan_move_time = 0.0
start_searching ==
    /\ since_audio' = 0
    /\ is_searching' = TRUE
    /\ since_scan' = Never(SCAN_INTERVAL)

\* self.person_detected_count = count;
\* self.last_person_update_time = time.time()
update_person_count(count) ==
    /\ person_detected_count' = count
    /\ since_person' = 0

\* if time.time() - self.last_person_update_time > timeout: return True
\* return self.person_detected_count > 0
is_person_present_closed(timeout) ==
    IF since_person > timeout THEN FALSE ELSE person_detected_count > 0
is_person_present(timeout) ==
    IF since_person > timeout THEN TRUE ELSE person_detected_count > 0

is_idle_mode(timeout) ==
    /\ ~is_person_present(timeout)
    /\ ~is_searching
    /\ ~target_locked
    /\ ~is_sleep_mode

\* time.time() - self.last_sleep_check_time >= check_interval
can_check_sleep(check_interval) == since_sleep_check >= check_interval

enter_sleep_mode_keepsearch ==
    /\ is_sleep_mode' = TRUE
    /\ normal_frame_count' = 0
    /\ target_locked' = FALSE
    /\ is_searching' = is_searching
    /\ was_tracking' = FALSE
enter_sleep_mode ==
    /\ is_sleep_mode' = TRUE
    /\ normal_frame_count' = 0
    /\ target_locked' = FALSE
    /\ is_searching' = FALSE
    /\ was_tracking' = FALSE

exit_sleep_mode_keepcount ==
    /\ is_sleep_mode' = FALSE
    /\ normal_frame_count' = normal_frame_count
exit_sleep_mode ==
    /\ is_sleep_mode' = FALSE
    /\ normal_frame_count' = 0

\* ----------------------------------------------------------- FrameAnalyzer
\* frames by their brightness statistics: dark and uniform, dark and
\* textured, at the brightness threshold, bright
Frames == {[mean |-> 10, std |-> 5], [mean |-> 10, std |-> 60],
           [mean |-> 30, std |-> 5], [mean |-> 120, std |-> 50]}

is_privacy_mode(frame) ==
    /\ frame.mean < PRIVACY_BRIGHTNESS_THRESHOLD
    /\ frame.std < PRIVACY_STD_THRESHOLD

is_normal_frame(frame) == frame.mean >= PRIVACY_BRIGHTNESS_THRESHOLD

\* ------------------------------------------------------------ the clock
\* one tick of time passes
Tick ==
    /\ since_audio' = Older(since_audio, Never(AUDIO_TRIGGER_TIME))
    /\ since_scan' = Older(since_scan, Never(SCAN_INTERVAL))
    /\ since_person' = Older(since_person, Never(PERSON_TIMEOUT))
    /\ since_sleep_check' = Older(since_sleep_check, SLEEP_CHECK_INTERVAL)
    /\ since_startup' = Older(since_startup, STARTUP_IGNORE_TIME)
    /\ since_move' = Older(since_move, Never(SCAN_INTERVAL))
    /\ since_fallback' = IF since_fallback = Unset THEN Unset
                         ELSE Older(since_fallback, MAX_FALLBACK_DURATION)
    /\ NotCycle
    /\ Quiet
    /\ UNCHANGED <<mgrVars, loopVars, mainVars, tagVars, histVars, stateVars,
                   loss_count, last_target_pos, paused, pc_mqtt, fnVars>>

\* ------------------------------------------ _on_mqtt_message (MQTT thread)
\* the person counts a message carries
PersonCounts == {0, 1}

\* if self.state.is_startup_period(config.STARTUP_IGNORE_TIME): return
OnMessageIgnored ==
    /\ pc_mqtt = "idle"
    /\ is_startup_period(STARTUP_IGNORE_TIME)
    /\ NotCycle
    /\ Quiet
    /\ UNCHANGED <<mgrVars, loopVars, mainVars, tagVars, histVars, stateVars,
                   timeVars, missVars, pc_mqtt, since_move, fnVars>>

\* person topic: self.state.update_person_count(int(payload))
OnPersonMessage ==
    /\ pc_mqtt = "idle"
    /\ ~is_startup_period(STARTUP_IGNORE_TIME)
    /\ \E count \in PersonCounts : update_person_count(count)
    /\ NotCycle
    /\ Quiet
    /\ UNCHANGED <<mgrVars, loopVars, mainVars, tagVars, histVars,
                   is_searching, target_locked, was_tracking, is_sleep_mode,
                   normal_frame_count, current_preset_idx, since_audio,
                   since_scan, since_sleep_check, since_startup, missVars,
                   pc_mqtt, since_move, fnVars>>

\* audio topic: if payload == "ON" and not self.state.target_locked:
OnAudioMessage_nolockcheck ==
    /\ pc_mqtt = "idle"
    /\ ~is_startup_period(STARTUP_IGNORE_TIME)
    /\ pc_mqtt' = "start_searching"
    /\ NotCycle
    /\ Quiet
    /\ UNCHANGED <<mgrVars, loopVars, mainVars, tagVars, histVars, stateVars,
                   timeVars, missVars, since_move, fnVars>>
OnAudioMessage ==
    /\ pc_mqtt = "idle"
    /\ ~is_startup_period(STARTUP_IGNORE_TIME)
    /\ pc_mqtt' = IF ~target_locked THEN "start_searching" ELSE "idle"
    /\ NotCycle
    /\ Quiet
    /\ UNCHANGED <<mgrVars, loopVars, mainVars, tagVars, histVars, stateVars,
                   timeVars, missVars, since_move, fnVars>>

\* self.state.start_searching();
\* if self.frame_reader.paused: self.frame_reader.resume()
OnAudioStart ==
    /\ pc_mqtt = "start_searching"
    /\ start_searching
    /\ since_move' = IF is_searching THEN since_move ELSE Never(SCAN_INTERVAL)
    /\ paused' = FALSE
    /\ pc_mqtt' = "idle"
    /\ NotCycle
    /\ Quiet
    /\ UNCHANGED <<mgrVars, loopVars, mainVars, tagVars, histVars,
                   target_locked, was_tracking, is_sleep_mode,
                   normal_frame_count, current_preset_idx,
                   person_detected_count, since_person, since_sleep_check,
                   since_startup, loss_count, since_fallback,
                   last_target_pos, fnVars>>

MqttNext ==
    \/ OnMessageIgnored
    \/ OnPersonMessage
    \/ OnAudioMessage
    \/ OnAudioStart

\* ------------------------------------------------- DetectionProcessor
\* a detection: class id, box centre in pixels, confidence in units of 0.01
PrimaryLeft == [class_id |-> 1, x |-> 0, y |-> 50, conf |-> 80]
FallbackNear == [class_id |-> 0, x |-> 61, y |-> 50, conf |-> 70]

\* the detection lists a frame's inference returns
Results == {<<>>, <<PrimaryLeft>>, <<FallbackNear>>,
            <<FallbackNear, PrimaryLeft>>}

\* (norm_cx, norm_cy), in units of 0.01
NormCenter(d, frame_width, frame_height) ==
    <<(d.x * 100) \div frame_width, (d.y * 100) \div frame_height>>

\* dist > config.MAX_FALLBACK_DISTANCE, compared as squares
TooFar_never(d, last_target_center, frame_width, frame_height) == FALSE
TooFar(d, last_target_center, frame_width, frame_height) ==
    LET c == NormCenter(d, frame_width, frame_height)
        ex == c[1] - last_target_center[1]
        ey == c[2] - last_target_center[2]
    IN  ex * ex + ey * ey > MAX_FALLBACK_DISTANCE * MAX_FALLBACK_DISTANCE

\* conf * CONFIDENCE_WEIGHT + (1.0 - dist_factor) * DISTANCE_WEIGHT, with
\* weights 0.6 and 0.4, times 2000
Score(d, frame_width, frame_height) ==
    LET dist_x == (Abs(d.x - frame_width \div 2) * 100) \div (frame_width \div 2)
        dist_y == (Abs(d.y - frame_height \div 2) * 100)
                      \div (frame_height \div 2)
    IN  d.conf * 12 + (200 - (dist_x + dist_y)) * 4

\* the loop over the boxes from box i on; <<>> is None
RECURSIVE BestFrom_last(_, _, _, _, _, _, _, _)
BestFrom_last(results, i, frame_width, frame_height, target_classes, last_target_center, best_target, best_score) ==
    IF i > Len(results) THEN best_target
    ELSE LET d == results[i]
             skip == \/ d.class_id \notin target_classes
                     \/ /\ last_target_center # <<>>
                        /\ d.class_id # 1
                        /\ TooFar(d, last_target_center, frame_width,
                                  frame_height)
             score == Score(d, frame_width, frame_height)
         IN  IF ~skip /\ score >= best_score
             THEN BestFrom_last(results, i + 1, frame_width, frame_height,
                           target_classes, last_target_center, <<d>>, score)
             ELSE BestFrom_last(results, i + 1, frame_width, frame_height,
                           target_classes, last_target_center, best_target,
                           best_score)
RECURSIVE BestFrom(_, _, _, _, _, _, _, _)
BestFrom(results, i, frame_width, frame_height, target_classes, last_target_center, best_target, best_score) ==
    IF i > Len(results) THEN best_target
    ELSE LET d == results[i]
             skip == \/ d.class_id \notin target_classes
                     \/ /\ last_target_center # <<>>
                        /\ d.class_id # 1
                        /\ TooFar(d, last_target_center, frame_width,
                                  frame_height)
             score == Score(d, frame_width, frame_height)
         IN  IF ~skip /\ score > best_score
             THEN BestFrom(results, i + 1, frame_width, frame_height,
                           target_classes, last_target_center, <<d>>, score)
             ELSE BestFrom(results, i + 1, frame_width, frame_height,
                           target_classes, last_target_center, best_target,
                           best_score)

\* DetectionProcessor.find_best_target; best_score = -1.0
find_best_target(results, frame_width, frame_height, target_classes, last_target_center) ==
    BestFrom(results, 1, frame_width, frame_height, target_classes,
             last_target_center, <<>>, -2000)

\* run(): the primary pass, then the fallback pass when it found nothing and
\* the state says tracking
Select_anytime(results) ==
    LET first == find_best_target(results, FRAME_WIDTH, FRAME_HEIGHT, {1},
                                  <<>>)
    IN  IF first = <<>>
        THEN find_best_target(results, FRAME_WIDTH, FRAME_HEIGHT,
                              FALLBACK_CLASSES, <<>>)
        ELSE first
Select(results) ==
    LET first == find_best_target(results, FRAME_WIDTH, FRAME_HEIGHT, {1},
                                  <<>>)
    IN  IF first = <<>> /\ (target_locked \/ was_tracking)
        THEN find_best_target(results, FRAME_WIDTH, FRAME_HEIGHT,
                              FALLBACK_CLASSES, <<>>)
        ELSE first

\* ------------------------------------- JeonghooTracker.run: while asleep
\* if not self.state.can_check_sleep(...): time.sleep(0.1); continue
SleepWait ==
    /\ is_sleep_mode
    /\ ~can_check_sleep(SLEEP_CHECK_INTERVAL)
    /\ branch' = "sleep_wait"
    /\ NoCall /\ detection' = <<>> /\ scene' = <<>>
    /\ Quiet
    /\ UNCHANGED <<mgrVars, loopVars, mainVars, tagVars, histVars, stateVars,
                   timeVars, missVars, pc_mqtt, since_move, fnVars>>

\* mark_sleep_checked(); resume(); read() gives no frame: continue
SleepCheckNoFrame ==
    /\ is_sleep_mode
    /\ can_check_sleep(SLEEP_CHECK_INTERVAL)
    /\ since_sleep_check' = 0
    /\ paused' = FALSE
    /\ branch' = "sleep_noframe"
    /\ NoCall /\ detection' = <<>> /\ scene' = <<>>
    /\ Quiet
    /\ UNCHANGED <<mgrVars, loopVars, mainVars, tagVars, histVars, stateVars,
                   since_audio, since_scan, since_person, since_startup,
                   loss_count, since_fallback, last_target_pos, pc_mqtt,
                   since_move, fnVars>>

\* is_normal_frame(frame): count = increment_normal_count();
\* if count >= config.SLEEP_WAKE_CHECK_COUNT: exit_sleep_mode()
SleepCheckNormal ==
    /\ is_sleep_mode
    /\ can_check_sleep(SLEEP_CHECK_INTERVAL)
    /\ \E frame \in Frames : is_normal_frame(frame)
    /\ since_sleep_check' = 0
    /\ paused' = FALSE
    /\ IF normal_frame_count + 1 >= SLEEP_WAKE_CHECK_COUNT
       THEN exit_sleep_mode
       ELSE /\ normal_frame_count' = normal_frame_count + 1
            /\ is_sleep_mode' = is_sleep_mode
    /\ branch' = "sleep_normal"
    /\ NoCall /\ detection' = <<>> /\ scene' = <<>>
    /\ Quiet
    /\ UNCHANGED <<mgrVars, loopVars, mainVars, tagVars, histVars,
                   is_searching, target_locked, was_tracking,
                   current_preset_idx, person_detected_count, since_audio,
                   since_scan, since_person, since_startup, loss_count,
                   since_fallback, last_target_pos, pc_mqtt, since_move,
                   fnVars>>

\* else: reset_normal_count(); self.frame_reader.pause()
SleepCheckDark ==
    /\ is_sleep_mode
    /\ can_check_sleep(SLEEP_CHECK_INTERVAL)
    /\ \E frame \in Frames : ~is_normal_frame(frame)
    /\ since_sleep_check' = 0
    /\ normal_frame_count' = 0
    /\ paused' = TRUE
    /\ branch' = "sleep_dark"
    /\ NoCall /\ detection' = <<>> /\ scene' = <<>>
    /\ Quiet
    /\ UNCHANGED <<mgrVars, loopVars, mainVars, tagVars, histVars,
                   is_searching, target_locked, was_tracking, is_sleep_mode,
                   current_preset_idx, person_detected_count, since_audio,
                   since_scan, since_person, since_startup, loss_count,
                   since_fallback, last_target_pos, pc_mqtt, since_move,
                   fnVars>>

\* ------------------------------------------ JeonghooTracker.run: awake
\* resume(); read() gives no frame: time.sleep(0.01); continue
CycleNoFrame ==
    /\ ~is_sleep_mode
    /\ paused' = FALSE
    /\ branch' = "noframe"
    /\ NoCall /\ detection' = <<>> /\ scene' = <<>>
    /\ Quiet
    /\ UNCHANGED <<mgrVars, loopVars, mainVars, tagVars, histVars, stateVars,
                   timeVars, loss_count, since_fallback, last_target_pos,
                   pc_mqtt, since_move, fnVars>>

\* if is_privacy_mode(frame): enter_sleep_mode(); self.ptz.stop(); continue
CyclePrivacy ==
    /\ ~is_sleep_mode
    /\ \E frame \in Frames : is_privacy_mode(frame)
    /\ paused' = FALSE
    /\ enter_sleep_mode
    /\ StopCall
    /\ branch' = "privacy"
    /\ detection' = <<>> /\ scene' = <<>>
    /\ Quiet
    /\ UNCHANGED <<ptz, profile, running, lock, loopVars, mainVars, tagVars,
                   histVars, current_preset_idx, person_detected_count,
                   timeVars, loss_count, since_fallback, last_target_pos,
                   pc_mqtt, since_move, fnVars>>

\* if self.state.is_idle_mode(config.PERSON_TIMEOUT):
\*     self.ptz.stop(); self.frame_reader.pause(); time.sleep(...); continue
CycleIdle ==
    /\ ~is_sleep_mode
    /\ \E frame \in Frames : ~is_privacy_mode(frame)
    /\ is_idle_mode(PERSON_TIMEOUT)
    /\ StopCall
    /\ paused' = TRUE
    /\ branch' = "idle_pause"
    /\ detection' = <<>>
    /\ \E results \in Results : scene' = results
    /\ Quiet
    /\ UNCHANGED <<ptz, profile, running, lock, loopVars, mainVars, tagVars,
                   histVars, stateVars, timeVars, loss_count, since_fallback,
                   last_target_pos, pc_mqtt, since_move, fnVars>>

\* ----------------------------------------------- TrackerState, continued
lock_target_keepsearch ==
    /\ target_locked' = TRUE
    /\ is_searching' = is_searching
    /\ was_tracking' = TRUE
lock_target ==
    /\ target_locked' = TRUE
    /\ is_searching' = FALSE
    /\ was_tracking' = TRUE

unlock_target_half ==
    /\ target_locked' = FALSE
    /\ was_tracking' = was_tracking
unlock_target ==
    /\ target_locked' = FALSE
    /\ was_tracking' = FALSE

\* time.time() - self.last_scan_move_time > scan_interval
should_move_preset(scan_interval) == since_scan > scan_interval

\* time.time() - self.last_audio_time > trigger_time
is_search_timeout_early(trigger_time) == since_audio >= trigger_time
is_search_timeout(trigger_time) == since_audio > trigger_time

\* idx = self.current_preset_idx % preset_count
PresetIdx(preset_count) == current_preset_idx % preset_count

\* self.current_preset_idx += 1; self.last_scan_move_time = time.time()
next_preset ==
    /\ current_preset_idx' = current_preset_idx + 1
    /\ since_scan' = 0

\* members of TrackerState that handlers.py uses and state.py lacks
is_loss_patience_exceeded(count, patience) == count > patience

is_fallback_timeout(elapsed, max_duration) == elapsed >= max_duration

\* ------------------------------------------- run(): inference and routing
\* the cycle reaches the inference
Routed ==
    /\ ~is_sleep_mode
    /\ \E frame \in Frames : ~is_privacy_mode(frame)
    /\ ~is_idle_mode(PERSON_TIMEOUT)

\* TrackingHandler.handle with a class 1 detection
TrackPrimary_keeptimer ==
    /\ Routed
    /\ \E results \in Results :
          LET d == Select(results) IN
          /\ d # <<>> /\ d[1].class_id = 1
          /\ detection' = d /\ scene' = results
          /\ last_target_pos' = NormCenter(d[1], FRAME_WIDTH, FRAME_HEIGHT)
          /\ LET v == calculate(d[1].x, d[1].y, FRAME_WIDTH, FRAME_HEIGHT)
             IN  SetVelocityCall(v[1], v[2])
    /\ loss_count' = 0
    /\ since_fallback' = since_fallback
    /\ lock_target
    /\ paused' = FALSE
    /\ branch' = "track"
    /\ Quiet
    /\ UNCHANGED <<ptz, profile, running, lock, loopVars, mainVars, tagVars,
                   histVars, is_sleep_mode, normal_frame_count,
                   current_preset_idx, person_detected_count, timeVars,
                   pc_mqtt, since_move, fnVars>>
TrackPrimary ==
    /\ Routed
    /\ \E results \in Results :
          LET d == Select(results) IN
          /\ d # <<>> /\ d[1].class_id = 1
          /\ detection' = d /\ scene' = results
          /\ last_target_pos' = NormCenter(d[1], FRAME_WIDTH, FRAME_HEIGHT)
          /\ LET v == calculate(d[1].x, d[1].y, FRAME_WIDTH, FRAME_HEIGHT)
             IN  SetVelocityCall(v[1], v[2])
    /\ loss_count' = 0
    /\ since_fallback' = Unset
    /\ lock_target
    /\ paused' = FALSE
    /\ branch' = "track"
    /\ Quiet
    /\ UNCHANGED <<ptz, profile, running, lock, loopVars, mainVars, tagVars,
                   histVars, is_sleep_mode, normal_frame_count,
                   current_preset_idx, person_detected_count, timeVars,
                   pc_mqtt, since_move, fnVars>>

\* TrackingHandler.handle with a detection of another class, within the
\* fallback time limit
TrackFallback ==
    /\ Routed
    /\ LET elapsed == IF since_fallback = Unset THEN 0 ELSE since_fallback IN
       /\ ~is_fallback_timeout(elapsed, MAX_FALLBACK_DURATION)
       /\ since_fallback' = elapsed
    /\ \E results \in Results :
          LET d == Select(results) IN
          /\ d # <<>> /\ d[1].class_id # 1
          /\ detection' = d /\ scene' = results
          /\ LET v == calculate(d[1].x, d[1].y, FRAME_WIDTH, FRAME_HEIGHT)
             IN  SetVelocityCall(v[1], v[2])
    /\ loss_count' = 0
    /\ lock_target
    /\ paused' = FALSE
    /\ branch' = "fallback"
    /\ Quiet
    /\ UNCHANGED <<ptz, profile, running, lock, loopVars, mainVars, tagVars,
                   histVars, is_sleep_mode, normal_frame_count,
                   current_preset_idx, person_detected_count, timeVars,
                   last_target_pos, pc_mqtt, since_move, fnVars>>

\* ... past the limit: ptz.stop(); unlock_target(); reset_fallback_timer()
FallbackTimeout ==
    /\ Routed
    /\ LET elapsed == IF since_fallback = Unset THEN 0 ELSE since_fallback IN
       is_fallback_timeout(elapsed, MAX_FALLBACK_DURATION)
    /\ \E results \in Results :
          LET d == Select(results) IN
          /\ d # <<>> /\ d[1].class_id # 1
          /\ detection' = d /\ scene' = results
    /\ loss_count' = 0
    /\ StopCall
    /\ unlock_target
    /\ since_fallback' = Unset
    /\ paused' = FALSE
    /\ branch' = "fallback_timeout"
    /\ Quiet
    /\ UNCHANGED <<ptz, profile, running, lock, loopVars, mainVars, tagVars,
                   histVars, is_searching, is_sleep_mode, normal_frame_count,
                   current_preset_idx, person_detected_count, timeVars,
                   last_target_pos, pc_mqtt, since_move, fnVars>>

\* route: target_locked, no detection, budget not exceeded:
\* increment_loss_count(); TrackingHandler.handle(None): ptz.stop()
GraceCycle_nocount ==
    /\ Routed
    /\ \E results \in Results : Select(results) = <<>> /\ scene' = results
    /\ target_locked
    /\ ~is_loss_patience_exceeded(loss_count + 1, TRACKING_PATIENCE_COUNT)
    /\ loss_count' = loss_count
    /\ StopCall
    /\ detection' = <<>>
    /\ paused' = FALSE
    /\ branch' = "grace"
    /\ Quiet
    /\ UNCHANGED <<ptz, profile, running, lock, loopVars, mainVars, tagVars,
                   histVars, stateVars, timeVars, since_fallback,
                   last_target_pos, pc_mqtt, since_move, fnVars>>
GraceCycle_restart ==
    /\ Routed
    /\ \E results \in Results : Select(results) = <<>> /\ scene' = results
    /\ target_locked
    /\ ~is_loss_patience_exceeded(loss_count + 1, TRACKING_PATIENCE_COUNT)
    /\ loss_count' = loss_count + 1
    /\ StopCall
    /\ since_fallback' = Unset
    /\ detection' = <<>>
    /\ paused' = FALSE
    /\ branch' = "grace"
    /\ Quiet
    /\ UNCHANGED <<ptz, profile, running, lock, loopVars, mainVars, tagVars,
                   histVars, stateVars, timeVars, last_target_pos, pc_mqtt,
                   since_move, fnVars>>
GraceCycle ==
    /\ Routed
    /\ \E results \in Results : Select(results) = <<>> /\ scene' = results
    /\ target_locked
    /\ ~is_loss_patience_exceeded(loss_count + 1, TRACKING_PATIENCE_COUNT)
    /\ loss_count' = loss_count + 1
    /\ StopCall
    /\ detection' = <<>>
    /\ paused' = FALSE
    /\ branch' = "grace"
    /\ Quiet
    /\ UNCHANGED <<ptz, profile, running, lock, loopVars, mainVars, tagVars,
                   histVars, stateVars, timeVars, since_fallback,
                   last_target_pos, pc_mqtt, since_move, fnVars>>

\* route: budget exceeded: LostHandler.handle:
\* ptz.stop(); unlock_target(); reset_loss_count()
Lost ==
    /\ Routed
    /\ \E results \in Results : Select(results) = <<>> /\ scene' = results
    /\ target_locked
    /\ is_loss_patience_exceeded(loss_count + 1, TRACKING_PATIENCE_COUNT)
    /\ StopCall
    /\ unlock_target
    /\ loss_count' = 0
    /\ detection' = <<>>
    /\ paused' = FALSE
    /\ branch' = "lost"
    /\ Quiet
    /\ UNCHANGED <<ptz, profile, running, lock, loopVars, mainVars, tagVars,
                   histVars, is_searching, is_sleep_mode, normal_frame_count,
                   current_preset_idx, person_detected_count, timeVars,
                   since_fallback, last_target_pos, pc_mqtt, since_move,
                   fnVars>>

\* SearchingHandler.handle reached
Searching ==
    /\ Routed
    /\ \E results \in Results : Select(results) = <<>> /\ scene' = results
    /\ ~target_locked
    /\ is_searching

\* is_search_timeout: stop_searching(); ptz.stop()
SearchTimeout ==
    /\ Searching
    /\ is_search_timeout(AUDIO_TRIGGER_TIME)
    /\ target_locked' = FALSE
    /\ loss_count' = 0
    /\ is_searching' = FALSE
    /\ StopCall
    /\ detection' = <<>>
    /\ paused' = FALSE
    /\ branch' = "search_timeout"
    /\ Quiet
    /\ UNCHANGED <<ptz, profile, running, lock, loopVars, mainVars, tagVars,
                   histVars, was_tracking, is_sleep_mode, normal_frame_count,
                   current_preset_idx, person_detected_count, timeVars,
                   since_fallback, last_target_pos, pc_mqtt, since_move,
                   fnVars>>

\* should_move_preset: next_preset(); ptz.goto_preset(...) is reached
MoveDue ==
    /\ Searching
    /\ ~is_search_timeout(AUDIO_TRIGGER_TIME)
    /\ should_move_preset(SCAN_INTERVAL)
    /\ current_preset_idx < MaxMoves

\* goto_preset: the link is down, return False
SearchMoveRefused ==
    /\ MoveDue
    /\ ~IsConnected
    /\ target_locked' = FALSE
    /\ loss_count' = 0
    /\ next_preset
    /\ since_move' = 0
    /\ api' = "goto_preset"
    /\ apiArg' = <<PresetIdx(Len(SEARCH_PRESETS))>>
    /\ detection' = <<>>
    /\ paused' = FALSE
    /\ branch' = "search_move"
    /\ Quiet
    /\ UNCHANGED <<mgrVars, loopVars, mainVars, tagVars, histVars,
                   is_searching, was_tracking, is_sleep_mode,
                   normal_frame_count, person_detected_count, since_audio,
                   since_person, since_sleep_check, since_startup,
                   since_fallback, last_target_pos, pc_mqtt, scene, fnVars>>

\* goto_preset: GotoPreset returns; the cell is zeroed under the lock
SearchMoveSent ==
    /\ MoveDue
    /\ IsConnected
    /\ target_locked' = FALSE
    /\ loss_count' = 0
    /\ next_preset
    /\ since_move' = 0
    /\ api' = "goto_preset"
    /\ apiArg' = <<PresetIdx(Len(SEARCH_PRESETS))>>
    /\ hwEvt' = "Preset" /\ hwVel' = hwVel
    /\ cmd_pan' = 0 /\ cmd_tilt' = 0
    /\ detection' = <<>>
    /\ paused' = FALSE
    /\ branch' = "search_move"
    /\ UNCHANGED <<ptz, profile, running, lock, loopVars, mainVars, tagVars,
                   histVars, is_searching, was_tracking, is_sleep_mode,
                   normal_frame_count, person_detected_count, since_audio,
                   since_person, since_sleep_check, since_startup,
                   since_fallback, last_target_pos, pc_mqtt, scene, fnVars>>

\* goto_preset: GotoPreset raises, return False
SearchMoveRaised ==
    /\ MoveDue
    /\ IsConnected
    /\ target_locked' = FALSE
    /\ loss_count' = 0
    /\ next_preset
    /\ since_move' = 0
    /\ api' = "goto_preset"
    /\ apiArg' = <<PresetIdx(Len(SEARCH_PRESETS))>>
    /\ hwEvt' = "PresetFail" /\ hwVel' = hwVel
    /\ detection' = <<>>
    /\ paused' = FALSE
    /\ branch' = "search_move"
    /\ UNCHANGED <<mgrVars, loopVars, mainVars, tagVars, histVars,
                   is_searching, was_tracking, is_sleep_mode,
                   normal_frame_count, person_detected_count, since_audio,
                   since_person, since_sleep_check, since_startup,
                   since_fallback, last_target_pos, pc_mqtt, scene, fnVars>>

\* neither: the camera stays where it is
SearchHold ==
    /\ Searching
    /\ ~is_search_timeout(AUDIO_TRIGGER_TIME)
    /\ ~should_move_preset(SCAN_INTERVAL)
    /\ target_locked' = FALSE
    /\ loss_count' = 0
    /\ NoCall
    /\ detection' = <<>>
    /\ paused' = FALSE
    /\ branch' = "search_wait"
    /\ Quiet
    /\ UNCHANGED <<mgrVars, loopVars, mainVars, tagVars, histVars,
                   is_searching, was_tracking, is_sleep_mode,
                   normal_frame_count, current_preset_idx,
                   person_detected_count, timeVars, since_fallback,
                   last_target_pos, pc_mqtt, since_move, fnVars>>

\* IdleHandler.handle: target_locked = False; reset_loss_count(); ptz.stop()
IdleCycle ==
    /\ Routed
    /\ \E results \in Results : Select(results) = <<>> /\ scene' = results
    /\ ~target_locked
    /\ ~is_searching
    /\ target_locked' = FALSE
    /\ loss_count' = 0
    /\ StopCall
    /\ detection' = <<>>
    /\ paused' = FALSE
    /\ branch' = "idle"
    /\ Quiet
    /\ UNCHANGED <<ptz, profile, running, lock, loopVars, mainVars, tagVars,
                   histVars, is_searching, was_tracking, is_sleep_mode,
                   normal_frame_count, current_preset_idx,
                   person_detected_count, timeVars, since_fallback,
                   last_target_pos, pc_mqtt, since_move, fnVars>>

CycleNext ==
    \/ SleepWait
    \/ SleepCheckNoFrame
    \/ SleepCheckNormal
    \/ SleepCheckDark
    \/ CycleNoFrame
    \/ CyclePrivacy
    \/ CycleIdle
    \/ TrackPrimary
    \/ TrackFallback
    \/ FallbackTimeout
    \/ GraceCycle
    \/ Lost
    \/ SearchTimeout
    \/ SearchMoveRefused
    \/ SearchMoveSent
    \/ SearchMoveRaised
    \/ SearchHold
    \/ IdleCycle

TrackerNext == CycleNext \/ MqttNext \/ Tick

\* the tracker starts with the link established or not
TrackerInit == Init /\ (ptz = "None" \/ profile # "None")

TrackerSpec == TrackerInit /\ [][TrackerNext]_vars

\* ------------------------------------------ the functions on their own
\* the longest detection list tried
MaxResults == 2

\* detections: a far fallback candidate with the highest score, and one
\* that mirrors FallbackNear about the frame centre and so ties with it
FallbackFar == [class_id |-> 2, x |-> 85, y |-> 50, conf |-> 99]
FallbackMirror == [class_id |-> 0, x |-> 39, y |-> 50, conf |-> 70]
Boxes == {PrimaryLeft, FallbackNear, FallbackMirror, FallbackFar}

\* the arguments find_best_target is tried with: results, target_classes
\* and last_target_center (<<>> is None)
DetectionLists == UNION {[1..n -> Boxes] : n \in 0..MaxResults}
ClassLists == {{1}, FALLBACK_CLASSES, {0, 1, 2}}
Centers == {<<>>, <<50, 50>>, <<0, 50>>}

\* Config objects: the three camera settings (empty when the environment
\* variable is not set), the preset list and the scan interval
Configs ==
    [TAPO_IP : {"", "ip"}, TAPO_USER : {"", "user"},
     TAPO_PASSWORD : {"", "pw"},
     SEARCH_PRESETS : {<<>>, SEARCH_PRESETS},
     SCAN_INTERVAL : {-30, 0, 30}]

\* Config.validate: all([TAPO_IP, TAPO_USER, TAPO_PASSWORD])
validate(cfg) ==
    cfg.TAPO_IP # "" /\ cfg.TAPO_USER # "" /\ cfg.TAPO_PASSWORD # ""

Calls ==
    [fn : {"find_best_target"}, results : DetectionLists,
     target_classes : ClassLists, last_target_center : Centers]
    \cup [fn : {"calculate"}, target_x : 0..FRAME_WIDTH,
          target_y : 0..FRAME_HEIGHT]
    \cup [fn : {"initialize"}, config : Configs]

PureInit ==
    /\ Constructed /\ ptz = "None"
    /\ pc_fn = "call" /\ fn_args \in Calls /\ fn_ret = <<>>

ApplyFindBestTarget ==
    /\ pc_fn = "call" /\ fn_args.fn = "find_best_target"
    /\ fn_ret' = find_best_target(fn_args.results, FRAME_WIDTH, FRAME_HEIGHT,
                                  fn_args.target_classes,
                                  fn_args.last_target_center)
    /\ pc_fn' = "return"
    /\ UNCHANGED <<mgrVars, loopVars, mainVars, hwVars, tagVars, histVars,
                   stateVars, timeVars, missVars, cycleVars, fn_args>>

ApplyCalculate ==
    /\ pc_fn = "call" /\ fn_args.fn = "calculate"
    /\ fn_ret' = calculate(fn_args.target_x, fn_args.target_y, FRAME_WIDTH,
                           FRAME_HEIGHT)
    /\ pc_fn' = "return"
    /\ UNCHANGED <<mgrVars, loopVars, mainVars, hwVars, tagVars, histVars,
                   stateVars, timeVars, missVars, cycleVars, fn_args>>

\* JeonghooTracker.initialize: False when validate() fails; otherwise the
\* result of bringing up the camera, MQTT, the model and the stream.
\* main(): run() is entered when initialize() returned True
ApplyInitialize ==
    /\ pc_fn = "call" /\ fn_args.fn = "initialize"
    /\ \E components_up \in BOOLEAN :
          fn_ret' = <<validate(fn_args.config) /\ components_up>>
    /\ pc_fn' = "return"
    /\ UNCHANGED <<mgrVars, loopVars, mainVars, hwVars, tagVars, histVars,
                   stateVars, timeVars, missVars, cycleVars, fn_args>>

PureNext ==
    \/ ApplyFindBestTarget
    \/ ApplyCalculate
    \/ ApplyInitialize

PureSpec == PureInit /\ [][PureNext]_vars

\* ------------------------------------------------------------ properties
VelocitySent == {"Stop", "Move"}
VelocityFailed == {"StopFail", "MoveFail"}

\* the loop's tick ends at this step
TickEnds == pc_loop = "decide" /\ pc_loop' = "sleep"

\* C1: a tick with the link up whose desired command is exactly (0,0) while
\* the last dispatched command is nonzero on either axis issues a Stop, even
\* when the difference is within the threshold on both axes.
C1_StopOnAnyNonzeroAxis ==
    [][(TickEnds /\ Current = <<0, 0>> /\ Last # <<0, 0>>)
         => hwEvt' \in {"Stop", "StopFail"}]_vars

\* C2: a tick issues no hardware command when the desired command is within
\* the threshold of the last dispatched one on both axes and it is not a
\* nonzero-to-zero transition; a command written once is sent at most once.
C2_DedupWithinThreshold ==
    /\ [][(pc_loop = "decide" /\ hwEvt' \in VelocitySent \cup VelocityFailed)
            => \/ Abs(current_pan - last_pan) > PTZ_VELOCITY_THRESHOLD
               \/ Abs(current_tilt - last_tilt) > PTZ_VELOCITY_THRESHOLD
               \/ (Current = <<0, 0>> /\ Last # <<0, 0>>)]_vars
    /\ [](sendsOfCurrent <= 1)

\* a nonzero command that has been sent once is suppressed by a later tick
C2_Witness ==
    /\ pc_loop = "sleep" /\ tickLinked /\ tickDispatches = 0
    /\ curPanTag = nWrites /\ curTiltTag = nWrites
    /\ sendsOfCurrent = 1
    /\ Current # <<0, 0>>

\* C3: when shutdown() is called while the last dispatched command is
\* nonzero, the loop has sent a Stop by the time it terminates.
C3_StopBeforeExit ==
    (pc_loop = "done" /\ movingAtShutdown) => stopAfterShutdown

\* c has to be dispatched: it differs from the last dispatched command by
\* more than the threshold on some axis, or is (0,0) after a nonzero command
MustDispatch(c) ==
    \/ Abs(c[1] - last_pan) > PTZ_VELOCITY_THRESHOLD
    \/ Abs(c[2] - last_tilt) > PTZ_VELOCITY_THRESHOLD
    \/ (c = <<0, 0>> /\ Last # <<0, 0>>)

\* C4: while the desired command stays at a value that has to be dispatched
\* and the loop keeps running, that value is eventually dispatched.  (The
\* caller makes at most MaxWrites writes, so in every behaviour the desired
\* command is eventually fixed.)
C4_EventuallyDispatched ==
    (running /\ MustDispatch(Cell))
        ~> \/ (hwEvt \in VelocitySent /\ hwVel = Cell)
           \/ ~running \/ ~MustDispatch(Cell)

\* C5: every velocity command the hardware receives is the pair of the most
\* recent write as of the read of the tick that dispatched it.
C5_LastWriteWins ==
    (hwEvt \in VelocitySent) => (hwVel = readWritten)

\* a write was overwritten before the loop read it, and the loop has
\* dispatched the later one
C5_Witness ==
    /\ overwrote /\ hwEvt = "Move"
    /\ curPanTag = nWrites /\ hwVel = written

\* C6: outside the read itself, the pair the loop holds was written by one
\* write operation (or is the initial pair).
C6_NoTornRead ==
    (pc_loop # "read_tilt") => (curPanTag = curTiltTag)

\* the loop has read a written pair while a writer was waiting for the lock
C6_Witness ==
    /\ pc_loop = "decide" /\ curPanTag >= 1 /\ curPanTag = curTiltTag
    /\ pc_main \in {"sv_lock", "gp_lock"}

C8_PresetNotOverridden ==
    presetActive => (hwEvt \notin VelocitySent)

\* C9: a tick that found the link down dispatches nothing; a failed dispatch
\* drops the link, is not retried in the tick, leaves the last-dispatched
\* snapshot alone, and the next tick goes to reconnect.
C9_LinkFailureHandling ==
    /\ []((tickDispatches > 0) => tickLinked)
    /\ [](tickDispatches <= 1)
    /\ [][(hwEvt' \in VelocityFailed)
            => (ptz' = "None" /\ Last' = Last /\ pc_loop' = "sleep")]_vars
    /\ [][(failedLastTick /\ pc_loop = "check" /\ pc_loop' # "check")
            => pc_loop' = "connect"]_vars

\* the tick after a failed dispatch is at the reconnect
C9_Witness ==
    pc_loop = "connect" /\ failedLastTick /\ Current # Last

\* C10: a reconnect attempt never starts while the delay owed for a failed
\* attempt has not been slept, and the running flag is checked in between.
C10_ReconnectBackoff ==
    (pc_loop = "connect") => (~backoffDue /\ checkedSinceAttempt)

\* C11: every hardware request (ContinuousMove, Stop or GotoPreset, whether
\* it succeeds or fails) is issued by a step of the command loop (b); no step
\* of the calling thread (a) issues one.
C11_HardwareOnlyFromLoop ==
    [][(hwEvt' # "none") => (pc_main' = pc_main)]_vars

\* C12: every velocity command is clamped to [-1.0, 1.0] on both axes: what
\* VelocityCalculator returns, the desired-command cell after any
\* set_velocity call, and every pair dispatched to the hardware.
C12_AlwaysClamped ==
    /\ \A v \in CalcOutputs : InRange(v[1]) /\ InRange(v[2])
    /\ InRange(cmd_pan) /\ InRange(cmd_tilt)
    /\ (hwEvt \in VelocitySent \cup VelocityFailed)
          => (InRange(hwVel[1]) /\ InRange(hwVel[2]))

\* set_velocity was called with a pan beyond the range, and the loop has
\* dispatched the clamped pair; the calculator saturates at the frame edge
C12_Witness ==
    /\ hwEvt = "Move" /\ hwVel = <<-VEL_LIMIT, 0>> /\ arg_pan < -VEL_LIMIT
    /\ calculate(0, 50, FRAME_WIDTH, FRAME_HEIGHT) = <<-VEL_LIMIT, 0>>

\* ------------------------------------------------- the mode state machine
\* the frame's detection list holds a detection of the primary class
HasPrimary(results) == \E i \in 1..Len(results) : results[i].class_id = 1

\* the step is an evaluation cycle begun outside Sleep that read a frame
\* showing the primary class
PrimaryCycle == ~is_sleep_mode /\ branch' # "none" /\ HasPrimary(scene')

\* the step ends in Tracking: locked, searching cleared, and set_velocity
\* called with the velocity calculated from the primary detection
EndsTracking ==
    /\ target_locked' /\ ~is_searching'
    /\ detection' # <<>> /\ detection'[1].class_id = 1
    /\ api' = "set_velocity"
    /\ apiArg' = calculate(detection'[1].x, detection'[1].y, FRAME_WIDTH,
                           FRAME_HEIGHT)
    /\ Cell' = <<Clamp(apiArg'[1]), Clamp(apiArg'[2])>>

\* C13: from any mode but Sleep (Idle under a fresh zero-person signal
\* included), an evaluation cycle whose frame holds a primary-class detection
\* ends in Tracking within that cycle.
C13_PrimaryAlwaysTracked ==
    [][PrimaryCycle => EndsTracking]_vars

\* C13, amended: the same for every such cycle that is not stopped by the
\* person gate (is_idle_mode is false when the cycle begins).
C13_PrimaryTrackedPastGate ==
    [][(PrimaryCycle /\ ~is_idle_mode(PERSON_TIMEOUT)) => EndsTracking]_vars

\* a cycle locked onto the primary detection of a two-detection frame while
\* the latest person signal is fresh and reports nobody
C13_Witness ==
    /\ branch = "track" /\ scene = <<FallbackNear, PrimaryLeft>>
    /\ detection = <<PrimaryLeft>>
    /\ target_locked /\ ~is_searching
    /\ api = "set_velocity" /\ apiArg = <<-VEL_LIMIT, 0>>
    /\ person_detected_count = 0 /\ since_person <= PERSON_TIMEOUT

\* the step is an evaluation cycle that began with the target locked, read a
\* frame that is no privacy frame, and found no detection to follow
DetectionFreeCycle ==
    /\ target_locked /\ ~is_sleep_mode
    /\ branch' \notin {"none", "noframe", "privacy"}
    /\ detection' = <<>>

\* C14: while Tracking with patience budget P, each of the first P
\* consecutive detection-free cycles leaves the target locked, issues a stop
\* command and counts one more loss; a cycle that handles a detection puts
\* the count back to 0, and the count never passes P.
C14_GracePeriod ==
    [][/\ (DetectionFreeCycle /\ loss_count < TRACKING_PATIENCE_COUNT)
             => /\ target_locked' /\ was_tracking'
                /\ api' = "stop" /\ Cell' = <<0, 0>>
                /\ loss_count' = loss_count + 1
       /\ (detection' # <<>>) => (loss_count' = 0)
       /\ loss_count' \in 0..TRACKING_PATIENCE_COUNT]_vars

\* the last cycle of the budget: nothing detected, the camera stopped, the
\* target still locked
C14_Witness ==
    /\ branch = "grace" /\ loss_count = TRACKING_PATIENCE_COUNT
    /\ target_locked /\ api = "stop" /\ Cell = <<0, 0>>

\* the step is an evaluation cycle that began with no target locked, read a
\* frame that is no privacy frame, and handled no detection
UnlockedFreeCycle ==
    /\ ~target_locked /\ ~is_sleep_mode
    /\ branch' \notin {"none", "noframe", "privacy"}
    /\ detection' = <<>>

FallbackCycle ==
    /\ ~is_sleep_mode /\ branch' # "none"
    /\ detection' # <<>> /\ detection'[1].class_id # 1

\* the time the fallback timer shows to that cycle: it starts the timer when
\* it is not running
FallbackElapsed == IF since_fallback = Unset THEN 0 ELSE since_fallback

C17_OneMovePerInterval ==
    [][(branch' = "search_move") => (since_move > SCAN_INTERVAL)]_vars

\* C18: the step that enters Sleep is the cycle that read a privacy frame; it
\* issues a stop command and leaves target_locked, was_tracking and
\* is_searching false and the count of normal frames at 0.
C18_SleepEntry ==
    [][(~is_sleep_mode /\ is_sleep_mode')
          => /\ branch' = "privacy"
             /\ api' = "stop" /\ Cell' = <<0, 0>>
             /\ ~target_locked' /\ ~was_tracking' /\ ~is_searching'
             /\ normal_frame_count' = 0]_vars

\* Sleep was entered from Tracking, in the grace period: the loss count of
\* the interrupted tracking is still there
C18_Witness ==
    /\ branch = "privacy" /\ is_sleep_mode /\ loss_count > 0
    /\ api = "stop" /\ Cell = <<0, 0>>
    /\ ~target_locked /\ ~was_tracking /\ ~is_searching
    /\ normal_frame_count = 0

\* C19: Sleep is left only by a sleep check that inspected a normal frame
\* when the SLEEP_WAKE_CHECK_COUNT - 1 frames inspected before it were normal
\* too, and the count is 0 afterwards; a normal frame short of that adds one
\* to the count, any other inspected frame puts it back to 0, and a check
\* that inspects no frame leaves it alone.
C19_SleepExit ==
    [][/\ (is_sleep_mode /\ ~is_sleep_mode')
             => /\ branch' = "sleep_normal"
                /\ normal_frame_count = SLEEP_WAKE_CHECK_COUNT - 1
                /\ normal_frame_count' = 0
       /\ (branch' = "sleep_normal")
             => IF normal_frame_count + 1 >= SLEEP_WAKE_CHECK_COUNT
                THEN ~is_sleep_mode' /\ normal_frame_count' = 0
                ELSE is_sleep_mode'
                     /\ normal_frame_count' = normal_frame_count + 1
       /\ (branch' = "sleep_dark")
             => (is_sleep_mode' /\ normal_frame_count' = 0)
       /\ (is_sleep_mode /\ branch' \in {"sleep_wait", "sleep_noframe", "none"})
             => (is_sleep_mode' /\ normal_frame_count' = normal_frame_count)
       /\ normal_frame_count' < SLEEP_WAKE_CHECK_COUNT]_vars

\* the check that saw the last normal frame of the run has just ended Sleep
C19_Witness ==
    /\ branch = "sleep_normal" /\ ~is_sleep_mode /\ normal_frame_count = 0

\* C20: a cycle pauses in Idle (stop command, frame source paused, no
\* detection handled) only when the latest person signal is no older than
\* PERSON_TIMEOUT and reports nobody and the machine is neither searching nor
\* locked nor asleep; with no signal ever received, or a stale one, it never
\* does.
C20_FailOpen ==
    [][(branch' = "idle_pause")
          => /\ since_person <= PERSON_TIMEOUT
             /\ person_detected_count = 0
             /\ ~is_searching /\ ~target_locked /\ ~is_sleep_mode
             /\ api' = "stop" /\ Cell' = <<0, 0>>
             /\ paused' /\ detection' = <<>>]_vars

\* an Idle pause on a signal that is exactly PERSON_TIMEOUT old
C20_Witness ==
    /\ branch = "idle_pause" /\ paused /\ api = "stop"
    /\ person_detected_count = 0 /\ since_person = PERSON_TIMEOUT

\* C21: at most one of the flags is_sleep_mode, target_locked and
\* is_searching is true in any reachable state, however the evaluation cycles
\* and the audio and person callbacks interleave.
C21_OneMode ==
    /\ ~(is_sleep_mode /\ target_locked)
    /\ ~(is_sleep_mode /\ is_searching)
    /\ ~(target_locked /\ is_searching)

\* C22: a step that is no evaluation cycle (a step of the MQTT callback or
\* the passing of time) writes no field of TrackerState: the flags and
\* counters are unchanged and no timestamp is set to the current time.
C22_OnlyCycleWrites ==
    [][(branch' = "none")
          => /\ UNCHANGED stateVars
             /\ since_audio' >= since_audio
             /\ since_person' >= since_person]_vars

\* C27: a cycle whose read gives no frame is handled as a cycle with an empty
\* detection list: while Tracking it issues a stop command and counts one
\* more loss (or, the budget used up, ends Tracking with the count at 0).
C27_NoFrameIsNoDetection ==
    [][(target_locked /\ ~is_sleep_mode /\ branch' = "noframe")
          => /\ api' = "stop" /\ Cell' = <<0, 0>>
             /\ \/ target_locked' /\ loss_count' = loss_count + 1
                \/ ~target_locked' /\ loss_count' = 0]_vars

\* ------------------------------------------------- members and their use
\* the fields and methods class TrackerState defines
StateMembers ==
    {"last_audio_time", "is_searching", "current_preset_idx",
     "last_scan_move_time", "target_locked", "was_tracking",
     "person_detected_count", "last_person_update_time", "last_debug_time",
     "last_status_log_time", "startup_time", "is_sleep_mode",
     "sleep_mode_start_time", "last_sleep_check_time", "normal_frame_count",
     "start_searching", "stop_searching", "lock_target", "unlock_target",
     "lost_target", "next_preset", "should_move_preset", "is_search_timeout",
     "get_search_remaining_time", "get_scan_remaining_time", "can_save_debug",
     "mark_debug_saved", "can_log_status", "mark_status_logged",
     "is_startup_period", "enter_sleep_mode", "exit_sleep_mode",
     "can_check_sleep", "mark_sleep_checked", "increment_normal_count",
     "reset_normal_count", "get_sleep_duration", "update_person_count",
     "is_person_present", "is_idle_mode"}

\* the attributes and methods class LatestFrameReader defines
ReaderMembers ==
    {"src", "buffer_size", "cap", "lock", "ret", "frame", "stopped", "thread",
     "_connect", "_start_thread", "_update_loop", "_reconnect", "read",
     "stop", "is_running"}

\* the members of self.frame_reader that run() touches in a cycle that ends
\* in branch b
ReaderUse(b) ==
    CASE b = "sleep_wait" -> {}
      [] b \in {"sleep_dark", "idle_pause"}
            -> {"paused", "resume", "read", "pause"}
      [] OTHER -> {"paused", "resume", "read"}

\* the members of self.state that run() touches itself in a cycle that ends
\* in branch b
RunUse(b) ==
    CASE b = "sleep_wait" -> {"is_sleep_mode", "can_check_sleep"}
      [] b = "sleep_noframe"
            -> {"is_sleep_mode", "can_check_sleep", "mark_sleep_checked"}
      [] b = "sleep_normal"
            -> {"is_sleep_mode", "can_check_sleep", "mark_sleep_checked",
                "increment_normal_count", "get_sleep_duration",
                "exit_sleep_mode"}
      [] b = "sleep_dark"
            -> {"is_sleep_mode", "can_check_sleep", "mark_sleep_checked",
                "reset_normal_count", "can_log_status", "get_sleep_duration",
                "mark_status_logged"}
      [] b = "noframe" -> {"is_sleep_mode"}
      [] b = "privacy" -> {"is_sleep_mode", "enter_sleep_mode"}
      [] b = "idle_pause"
            -> {"is_sleep_mode", "is_idle_mode", "can_log_status",
                "mark_status_logged"}
      [] OTHER
            -> {"is_sleep_mode", "is_idle_mode", "target_locked",
                "was_tracking"}

\* the members of state that StateRouter.route and the handler it picks
\* touch in a cycle that ends in branch b
HandlerUse(b) ==
    CASE b = "track"
            -> {"was_tracking", "loss_count", "reset_loss_count",
                "reset_fallback_timer", "update_last_target_pos",
                "lock_target"}
      [] b = "fallback"
            -> {"was_tracking", "loss_count", "reset_loss_count",
                "fallback_start_time", "start_fallback_timer",
                "is_fallback_timeout", "lock_target"}
      [] b = "fallback_timeout"
            -> {"was_tracking", "loss_count", "reset_loss_count",
                "fallback_start_time", "start_fallback_timer",
                "is_fallback_timeout", "unlock_target",
                "reset_fallback_timer"}
      [] b = "grace"
            -> {"target_locked", "increment_loss_count",
                "is_loss_patience_exceeded", "loss_count"}
      [] b = "lost"
            -> {"target_locked", "increment_loss_count",
                "is_loss_patience_exceeded", "unlock_target",
                "reset_loss_count"}
      [] b = "search_timeout"
            -> {"target_locked", "is_searching", "reset_loss_count",
                "is_search_timeout", "stop_searching"}
      [] b = "search_move"
            -> {"target_locked", "is_searching", "reset_loss_count",
                "is_search_timeout", "should_move_preset", "next_preset"}
      [] b = "search_wait"
            -> {"target_locked", "is_searching", "reset_loss_count",
                "is_search_timeout", "should_move_preset", "can_log_status",
                "get_scan_remaining_time", "mark_status_logged"}
      [] b = "idle"
            -> {"target_locked", "is_searching", "reset_loss_count",
                "can_log_status", "mark_status_logged"}
      [] OTHER -> {}

\* C28: every evaluation cycle completes without an unhandled error: each
\* member of TrackerState and of the frame reader that the cycle's branch
\* touches is one the class defines.
C28_NoCrash ==
    (branch # "none")
        => /\ RunUse(branch) \cup HandlerUse(branch) \subseteq StateMembers
           /\ ReaderUse(branch) \subseteq ReaderMembers

\* C29: after every evaluation cycle that handles a primary-class detection
\* the loss count is 0, the fallback timer is cleared, the last primary
\* center is the normalized center of that detection, and the machine is in
\* Tracking with set_velocity called with the velocity calculated from it.
C29_PrimaryHandled ==
    (branch # "none" /\ detection # <<>> /\ detection[1].class_id = 1)
        => /\ loss_count = 0
           /\ since_fallback = Unset
           /\ last_target_pos
                 = NormCenter(detection[1], FRAME_WIDTH, FRAME_HEIGHT)
           /\ target_locked /\ was_tracking
           /\ ~is_searching /\ ~is_sleep_mode
           /\ api = "set_velocity"
           /\ apiArg = calculate(detection[1].x, detection[1].y, FRAME_WIDTH,
                                 FRAME_HEIGHT)

\* a cycle has followed the primary target seen beside a nearer fallback
\* candidate, off centre, so the velocity is not zero
C29_Witness ==
    /\ branch = "track" /\ detection = <<PrimaryLeft>>
    /\ Len(scene) = 2
    /\ loss_count = 0 /\ since_fallback = Unset
    /\ last_target_pos = NormCenter(PrimaryLeft, FRAME_WIDTH, FRAME_HEIGHT)
    /\ apiArg # <<0, 0>>

\* C30: the fallback timer is started only by a cycle that follows a
\* fallback-class detection while the timer is not running, and starts at
\* that cycle; no cycle restarts a running timer, a detection-free grace cycle
\* leaves it as it is, and it is cleared only by a cycle that handles a
\* primary-class detection or by the fallback timeout, which fires only when
\* MAX_FALLBACK_DURATION has passed since the timer started.
C30_FallbackTimer ==
    [][/\ (since_fallback = Unset /\ since_fallback' # Unset)
             => (branch' = "fallback" /\ since_fallback' = 0)
       /\ (since_fallback # Unset /\ since_fallback' # Unset)
             => /\ since_fallback' >= since_fallback
                /\ (branch' # "none") => (since_fallback' = since_fallback)
       /\ (since_fallback # Unset /\ since_fallback' = Unset)
             => \/ branch' = "track" /\ detection'[1].class_id = 1
                \/ /\ branch' = "fallback_timeout"
                   /\ since_fallback >= MAX_FALLBACK_DURATION
       /\ (branch' = "grace") => (since_fallback' = since_fallback)]_vars

\* a grace cycle has passed with the fallback timer running and already at
\* the limit: the timer was kept, not restarted
C30_Witness ==
    /\ branch = "grace" /\ target_locked
    /\ since_fallback # Unset /\ since_fallback = MAX_FALLBACK_DURATION

\* find_best_target has returned
Selected == pc_fn = "return" /\ fn_args.fn = "find_best_target"

\* the square of the distance, in normalized coordinates (units of 0.01),
\* between the centre of box d and point c
Dist2(d, c) ==
    LET nx == (d.x * 100) \div FRAME_WIDTH
        ny == (d.y * 100) \div FRAME_HEIGHT
    IN  (nx - c[1]) * (nx - c[1]) + (ny - c[2]) * (ny - c[2])

\* box i of the list passes the class filter and the distance filter
Survives(i) ==
    LET d == fn_args.results[i] IN
    /\ d.class_id \in fn_args.target_classes
    /\ \/ fn_args.last_target_center = <<>>
       \/ d.class_id = 1
       \/ Dist2(d, fn_args.last_target_center)
             <= MAX_FALLBACK_DISTANCE * MAX_FALLBACK_DISTANCE

\* C23: when a last-known primary center is supplied, find_best_target never
\* returns a detection of a class other than the primary whose distance from
\* that center, in normalized coordinates, exceeds MAX_FALLBACK_DISTANCE; a
\* primary-class detection is returned whatever its distance.
C23_FallbackRadius ==
    (Selected /\ fn_args.last_target_center # <<>>)
        => /\ (fn_ret # <<>> /\ fn_ret[1].class_id # 1)
                 => Dist2(fn_ret[1], fn_args.last_target_center)
                       <= MAX_FALLBACK_DISTANCE * MAX_FALLBACK_DISTANCE
           /\ (/\ 1 \in fn_args.target_classes
               /\ \E i \in 1..Len(fn_args.results) :
                     fn_args.results[i].class_id = 1)
                 => fn_ret # <<>>

\* the near fallback candidate is returned although the far one, which
\* scores higher, comes first in the list
C23_Witness ==
    /\ Selected /\ fn_args.last_target_center = <<50, 50>>
    /\ fn_args.results = <<FallbackFar, FallbackNear>>
    /\ fn_ret = <<FallbackNear>>

\* C24: find_best_target returns None exactly when no detection passes the
\* class and distance filters; otherwise it returns a surviving detection
\* whose score no survivor exceeds and no earlier survivor equals, and so
\* never a detection of a class outside target_classes.
C24_BestSurvivor ==
    Selected
        => LET n == Len(fn_args.results)
               live == {i \in 1..n : Survives(i)}
           IN  /\ (fn_ret = <<>>) <=> (live = {})
               /\ (fn_ret # <<>>)
                     => /\ fn_ret[1].class_id \in fn_args.target_classes
                        /\ \E i \in live :
                              /\ fn_ret = <<fn_args.results[i]>>
                              /\ \A j \in live :
                                    LET si == Score(fn_args.results[i],
                                                    FRAME_WIDTH, FRAME_HEIGHT)
                                        sj == Score(fn_args.results[j],
                                                    FRAME_WIDTH, FRAME_HEIGHT)
                                    IN  sj <= si /\ (j < i => sj < si)

\* two survivors with the same score: the first of the list is returned
C24_Witness ==
    /\ Selected
    /\ fn_args.results = <<FallbackMirror, FallbackNear>>
    /\ Score(FallbackMirror, FRAME_WIDTH, FRAME_HEIGHT)
          = Score(FallbackNear, FRAME_WIDTH, FRAME_HEIGHT)
    /\ fn_args.target_classes = FALLBACK_CLASSES
    /\ fn_ret = <<FallbackMirror>>

\* calculate has returned
Calculated == pc_fn = "return" /\ fn_args.fn = "calculate"

\* the normalized offsets of the target from the frame centre, in units of
\* 0.01
OffsetX == ((fn_args.target_x - FRAME_WIDTH \div 2) * 100) \div FRAME_WIDTH
OffsetY == ((fn_args.target_y - FRAME_HEIGHT \div 2) * 100) \div FRAME_HEIGHT

\* C25: calculate returns pan 0 for every target whose horizontal offset is
\* inside the pan dead zone and tilt 0 for every target whose vertical offset
\* is inside the tilt dead zone, each whatever the other axis; so (0,0) when
\* both are inside.
C25_DeadZone ==
    Calculated
        => /\ (Abs(OffsetX) < PAN_DEAD_ZONE) => (fn_ret[1] = 0)
           /\ (Abs(OffsetY) < TILT_DEAD_ZONE) => (fn_ret[2] = 0)

\* a target inside the pan dead zone and outside the tilt dead zone: no pan,
\* some tilt
C25_Witness ==
    /\ Calculated
    /\ OffsetX # 0 /\ Abs(OffsetX) < PAN_DEAD_ZONE
    /\ Abs(OffsetY) > TILT_DEAD_ZONE
    /\ fn_ret[1] = 0 /\ fn_ret[2] # 0

\* C26: initialize() returns True, so that main() enters the control loop,
\* only for a configuration with a non-empty search preset list and a
\* positive scan interval.
C26_InvalidConfigStopsStart ==
    (pc_fn = "return" /\ fn_args.fn = "initialize" /\ fn_ret = <<TRUE>>)
        => /\ Len(fn_args.config.SEARCH_PRESETS) > 0
           /\ fn_args.config.SCAN_INTERVAL > 0

\* C31: a cycle that follows a fallback-class detection while a last primary
\* center is stored follows only a detection whose distance from that
\* center, in normalized coordinates, is at most MAX_FALLBACK_DISTANCE.
C31_FollowsWithinRadius ==
    (branch = "fallback" /\ last_target_pos # <<>>)
        => Dist2(detection[1], last_target_pos)
              <= MAX_FALLBACK_DISTANCE * MAX_FALLBACK_DISTANCE

\* C32: a cycle handles a fallback-class detection only when its frame shows
\* no primary-class detection and one of target_locked, was_tracking was set
\* when the cycle began; and a cycle that begins with the target not locked
\* ends with it locked only when it handled a primary-class detection.
C32_FallbackOnlyWhileTracking ==
    [][/\ (branch' # "none" /\ detection' # <<>>
             /\ detection'[1].class_id # 1)
             => /\ ~HasPrimary(scene')
                /\ target_locked \/ was_tracking
       /\ (~target_locked /\ target_locked')
             => (detection' # <<>> /\ detection'[1].class_id = 1)]_vars

\* a routed cycle outside Tracking has read a frame that shows only a
\* fallback-class detection, handled no detection and locked nothing
C32_Witness ==
    /\ branch \in {"idle", "search_move", "search_wait", "search_timeout"}
    /\ scene = <<FallbackNear>>
    /\ detection = <<>> /\ ~target_locked /\ ~was_tracking

\* the step is an evaluation cycle begun in Searching that read a frame that
\* is no privacy frame and handled no detection
SearchingCycle == UnlockedFreeCycle /\ is_searching

\* C33: a Searching cycle that runs when more than AUDIO_TRIGGER_TIME has
\* passed since the audio trigger issues a stop command, requests no preset
\* and clears the searching flag, so that the next detection-free cycle is
\* handled as Idle; a Searching cycle that runs earlier keeps the flag, and
\* no step takes the machine from Searching to Idle before that time.
C33_SearchWindow ==
    [][/\ (SearchingCycle /\ since_audio > AUDIO_TRIGGER_TIME)
             => /\ api' = "stop" /\ Cell' = <<0, 0>>
                /\ current_preset_idx' = current_preset_idx
                /\ ~is_searching' /\ ~target_locked'
       /\ (SearchingCycle /\ since_audio <= AUDIO_TRIGGER_TIME)
             => (is_searching' /\ api' # "stop")
       /\ (is_searching /\ ~is_searching' /\ ~target_locked'
             /\ ~is_sleep_mode')
             => since_audio > AUDIO_TRIGGER_TIME
       /\ (UnlockedFreeCycle /\ ~is_searching)
             => branch' \in {"idle", "idle_pause"}]_vars

\* the window has run out and the cycle has stopped the camera and cleared
\* the flag
C33_Witness ==
    /\ branch = "search_timeout" /\ api = "stop" /\ Cell = <<0, 0>>
    /\ ~is_searching /\ ~target_locked
    /\ since_audio > AUDIO_TRIGGER_TIME

\* C34: in every state in which the machine is asleep the target is not
\* locked, the searching flag is clear and the desired command is (0,0), and
\* the latest cycle, if it ran asleep, ran no mode handler, selected no
\* target and requested no preset.
C34_SleepSuspends ==
    is_sleep_mode
        => /\ ~target_locked /\ ~is_searching
           /\ Cell = <<0, 0>>
           /\ branch \in {"none", "privacy", "sleep_wait", "sleep_noframe",
                          "sleep_normal", "sleep_dark"}
           /\ detection = <<>> /\ api # "goto_preset"

\* C35: once shutdown has been requested the command loop ends at its next
\* test of the running flag, whatever the state of the link, so it ends
\* within one iteration; and no ContinuousMove is dispatched after the
\* request.
C35_LoopEndsQuietly ==
    [][/\ (~running /\ pc_loop = "while" /\ pc_loop' # "while")
             => (pc_loop' = "done")
       /\ (~running) => (hwEvt' # "Move")]_vars

\* C36: after every step, if the target is not locked the desired command is
\* (0,0); a step that sets a nonzero desired command is a cycle that handled
\* a detection and ends with the target locked; a step that takes the target
\* from locked to not locked calls stop; and the desired command is (0,0)
\* when a cycle calls goto_preset.
C36_UnlockedMeansStopped ==
    [][/\ (~target_locked') => (Cell' = <<0, 0>>)
       /\ (Cell' # Cell /\ Cell' # <<0, 0>>)
             => (target_locked' /\ detection' # <<>>
                   /\ api' = "set_velocity")
       /\ (target_locked /\ ~target_locked')
             => (api' = "stop" /\ Cell' = <<0, 0>>)
       /\ (api' = "goto_preset")
             => (Cell = <<0, 0>> /\ Cell' = <<0, 0>>)]_vars

\* the fallback timeout has ended Tracking with a stop: nothing is locked and
\* the desired command is (0,0)
C36_Witness ==
    /\ branch = "fallback_timeout" /\ api = "stop"
    /\ ~target_locked /\ Cell = <<0, 0>>
    /\ detection # <<>>

\* C37: in every reachable state was_tracking equals target_locked, so the
\* condition of the fallback pass, target_locked or was_tracking, holds
\* exactly when target_locked does.
C37_WasTrackingIsLocked ==
    /\ was_tracking = target_locked
    /\ (target_locked \/ was_tracking) = target_locked

\* a loss has cleared both flags together after a lock had set both
C37_Witness ==
    /\ branch = "lost" /\ ~target_locked /\ ~was_tracking
    /\ last_target_pos # <<>>

\* C38: an audio message handled while the target is locked, the loss grace
\* period included, changes nothing: the callback returns without calling
\* start_searching, so the searching flag, the audio trigger time and the
\* preset move time stay as they are; and a step that ends Tracking leaves
\* the searching flag as it was.
C38_AudioIgnoredWhileLocked ==
    [][/\ (target_locked /\ pc_mqtt = "idle" /\ branch' = "none")
             => /\ pc_mqtt' = "idle"
                /\ UNCHANGED <<is_searching, target_locked, was_tracking>>
                /\ since_audio' >= since_audio
                /\ since_scan' \in {since_scan,
                                    Older(since_scan, Never(SCAN_INTERVAL))}
       /\ (target_locked /\ ~target_locked' /\ ~is_sleep_mode')
             => (is_searching' = is_searching)]_vars

\* the target is locked and in its grace period, messages are no longer
\* ignored for start-up, the callback is not running and the latest step was
\* no evaluation cycle: nothing is being searched
C38_Witness ==
    /\ target_locked /\ loss_count > 0 /\ branch = "none"
    /\ ~is_startup_period(STARTUP_IGNORE_TIME)
    /\ pc_mqtt = "idle" /\ ~is_searching
    /\ since_audio = Never(AUDIO_TRIGGER_TIME)

\* C39: a cycle that requests a preset move advances the preset index and
\* records the move time whatever becomes of the request, and requests the
\* preset at the index it found; so with the link down, where every request
\* is refused, each request after the first is for the index after the
\* refused one and comes more than SCAN_INTERVAL after it.
C39_FailedMoveSkipped ==
    [][(branch' = "search_move")
          => /\ apiArg' = <<current_preset_idx % Len(SEARCH_PRESETS)>>
             /\ current_preset_idx' = current_preset_idx + 1
             /\ since_scan' = 0
             /\ (~IsConnected /\ current_preset_idx > 0)
                   => (since_move > SCAN_INTERVAL)]_vars
====
